--------------------------- MODULE ScreeningProofs ---------------------------
(* Theorems about Screening, for any set of pools, whatever the venue says *)
(* of them and their prices show, and any age.                             *)
EXTENDS Screening, TLAPS

(* A token that is in order has been hostile for no time. *)
Calm == \A p \in Pool : mint[p] = "clean" => dirty[p] = 0

(* What was read as clean has turned since, if at all. *)
ReadClean == \A p \in Pool : facts[p] = "clean" => dirty[p] <= age[p]

(* What cmd_redflags leaves to cmd_manage. *)
Checked ==
    pc = "manage" =>
        \A p \in Known :
            /\ facts[p] # "none"
            /\ age[p] <= MaxAge
            /\ facts[p] = "hostile" => p \in blocked

IInv == TypeOK /\ Calm /\ ReadClean /\ Checked

USE ScreeningAssumption

-----------------------------------------------------------------------------
LEMMA OlderType ==
    ASSUME NEW n \in 0..(MaxAge + 1)
    PROVE  Older(n) \in 0..(MaxAge + 1)
  BY DEF Older

(* The older of two readings stays the older one.                          *)
LEMMA OlderGrows ==
    ASSUME NEW m \in 0..(MaxAge + 1), NEW n \in 0..(MaxAge + 1), m <= n
    PROVE  Older(m) <= Older(n)
  BY DEF Older

(* A pool that can be traded has a row of scores. *)
LEMMA TradeableKnown ==
    ASSUME NEW p \in Pool, Tradeable(p)
    PROVE  p \in Known /\ p \notin blocked
  BY DEF Tradeable, Pays, Known, NoScore, Unknown

LEMMA InitIInv == Init => IInv
  <1> SUFFICES ASSUME Init PROVE IInv
      OBVIOUS
  <1>1. TypeOK
    <2>1. \A p \in Pool : score[p] = NoScore
          BY DEF Init
    <2>2. Known = {}
          BY <2>1 DEF Known
    <2>3. fetched \in [Pool -> [verdict : {"none", "black", "gated", "kept"}, fee : Nat, thin : BOOLEAN]]
          BY DEF Init, NoFetch
    <2> QED BY <2>2, <2>3 DEF Init, TypeOK
  <1>2. Calm /\ ReadClean /\ Checked
        BY DEF Init, Calm, ReadClean, Checked
  <1> QED BY <1>1, <1>2 DEF IInv

-----------------------------------------------------------------------------
(* The world. *)

LEMMA VenueStep ==
    ASSUME IInv, NEW p \in Pool, VenueChanges(p)
    PROVE  IInv'
  <1>1. venue' \in [Pool -> Offers]
        BY DEF IInv, TypeOK, VenueChanges
  <1>2. UNCHANGED <<prices, mint, dirty, listed, score, facts, age, blocked, held, fatal, pc, fetched>>
        BY DEF VenueChanges, mints, book
  <1>3. Known' = Known
        BY <1>2 DEF Known
  <1>4. TypeOK'
        BY <1>1, <1>2, <1>3 DEF IInv, TypeOK
  <1> QED BY <1>2, <1>3, <1>4 DEF IInv, Calm, ReadClean, Checked

LEMMA PricesStep ==
    ASSUME IInv, NEW p \in Pool, PricesChange(p)
    PROVE  IInv'
  <1>1. prices' \in [Pool -> Courses]
        BY DEF IInv, TypeOK, PricesChange
  <1>2. UNCHANGED <<venue, mint, dirty, listed, score, facts, age, blocked, held, fatal, pc, fetched>>
        BY DEF PricesChange, mints, book
  <1>3. Known' = Known
        BY <1>2 DEF Known
  <1>4. TypeOK'
        BY <1>1, <1>2, <1>3 DEF IInv, TypeOK
  <1> QED BY <1>2, <1>3, <1>4 DEF IInv, Calm, ReadClean, Checked

LEMMA MintStep ==
    ASSUME IInv, NEW p \in Pool, MintChanges(p)
    PROVE  IInv'
  <1>1. /\ mint' \in [Pool -> {"clean", "hostile"}]
        /\ dirty' \in [Pool -> 0..(MaxAge + 1)]
        BY DEF IInv, TypeOK, MintChanges
  <1>2. UNCHANGED <<venue, prices, listed, score, facts, age, blocked, held, fatal, pc, fetched>>
        BY DEF MintChanges, mints, book
  <1>3. Known' = Known
        BY <1>2 DEF Known
  <1>4. TypeOK'
        BY <1>1, <1>2, <1>3 DEF IInv, TypeOK
  <1>5. /\ \A q \in Pool \ {p} : mint'[q] = mint[q] /\ dirty'[q] = dirty[q]
        /\ dirty'[p] = 0
        BY DEF IInv, TypeOK, MintChanges
  <1>6. Calm'
        BY <1>5 DEF IInv, Calm
  <1>7. age[p] \in 0..(MaxAge + 1)
        BY DEF IInv, TypeOK
  <1>8. ReadClean'
        BY <1>2, <1>5, <1>7 DEF IInv, ReadClean
  <1>9. Checked'
        BY <1>2, <1>3 DEF IInv, Checked
  <1> QED BY <1>4, <1>6, <1>8, <1>9 DEF IInv

LEMMA TickStep ==
    ASSUME IInv, Tick
    PROVE  IInv'
  <1>1. UNCHANGED <<venue, prices, mint, listed, score, facts, blocked, held, fatal, pc, fetched>>
        BY DEF Tick, book
  <1>2. Known' = Known
        BY <1>1 DEF Known
  <1>3. /\ dirty' \in [Pool -> 0..(MaxAge + 1)]
        /\ age' \in [Pool -> 0..(MaxAge + 1)]
        BY OlderType DEF IInv, TypeOK, Tick
  <1>4. TypeOK'
        BY <1>1, <1>2, <1>3 DEF IInv, TypeOK
  <1>5. Calm'
        BY <1>1 DEF Calm, Tick
  <1>6. ASSUME NEW q \in Pool, facts'[q] = "clean"
        PROVE  dirty'[q] <= age'[q]
    <2>1. facts[q] = "clean" /\ dirty[q] <= age[q]
          BY <1>1, <1>6 DEF IInv, ReadClean
    <2>2. dirty[q] \in 0..(MaxAge + 1) /\ age[q] \in 0..(MaxAge + 1)
          BY DEF IInv, TypeOK
    <2>3. age'[q] = Older(age[q])
          BY <2>1 DEF Tick
    <2>4. CASE mint[q] = "hostile"
      <3>1. dirty'[q] = Older(dirty[q])
            BY <2>4 DEF Tick
      <3> QED BY <3>1, <2>1, <2>2, <2>3, OlderGrows
    <2>5. CASE mint[q] # "hostile"
      <3>1. dirty'[q] = 0
            BY <2>5 DEF Tick
      <3> QED BY <3>1, <2>2, <2>3, OlderType
    <2> QED BY <2>4, <2>5
  <1>7. ReadClean'
        BY <1>6 DEF ReadClean
  <1>8. Checked'
        BY <1>1 DEF Tick, Checked
  <1> QED BY <1>4, <1>5, <1>7, <1>8 DEF IInv

-----------------------------------------------------------------------------
(* The stages of a pass. *)

LEMMA FetchStep ==
    ASSUME IInv, Fetch
    PROVE  IInv'
  <1>1. UNCHANGED <<venue, prices, mint, dirty, listed, score, facts, age, blocked, held, fatal>>
        BY DEF Fetch, world, mints, book
  <1>2. Known' = Known
        BY <1>1 DEF Known
  <1>3. ASSUME NEW q \in Pool
        PROVE  /\ Verdict(venue[q]) \in {"none", "black", "gated", "kept"}
               /\ venue[q].fee \in Nat /\ venue[q].thin \in BOOLEAN
    <2>1. venue[q] \in [good : BOOLEAN, black : BOOLEAN, fee : Nat, thin : BOOLEAN]
          BY DEF IInv, TypeOK, Offer
    <2> QED BY <2>1 DEF Verdict
  <1>4. fetched' \in [Pool -> [verdict : {"none", "black", "gated", "kept"}, fee : Nat, thin : BOOLEAN]]
        BY <1>3 DEF Fetch
  <1>5. pc' = "persist"
        BY DEF Fetch
  <1>6. TypeOK'
        BY <1>1, <1>2, <1>4, <1>5 DEF IInv, TypeOK
  <1> QED BY <1>1, <1>5, <1>6 DEF IInv, Calm, ReadClean, Checked

(* A row stays a row when what needs a sigma is filled in. *)
LEMMA AssessedRow ==
    ASSUME IInv, NEW p \in Pool, NEW Long, NEW row \in Score
    PROVE  Assessed(row, p, Long) \in Score
  <1>1. prices[p].lvr \in Nat /\ prices[p].wild \in BOOLEAN
        BY DEF IInv, TypeOK, Course
  <1>2. [row EXCEPT !.lvr = prices[p].lvr, !.wild = prices[p].wild] \in Score
        BY <1>1 DEF Score
  <1> QED BY <1>2 DEF Assessed

LEMMA RowIsScore ==
    ASSUME NEW row \in Score
    PROVE  row # NoScore
  <1>1. row.fee \in Nat /\ NoScore.fee = -1
        BY DEF Score, NoScore, Unknown
  <1> QED BY <1>1, SMT

LEMMA PersistStep ==
    ASSUME IInv, Persist
    PROVE  IInv'
  <1>1. UNCHANGED <<venue, prices, mint, dirty, facts, age, blocked, held, fatal>>
        BY DEF Persist, world, mints, book
  <1>2. PICK Long \in SUBSET Pool :
          score' = [p \in Pool |->
            IF fetched[p].verdict = "kept" THEN Scored(p, Long) ELSE score[p]]
        BY DEF Persist
  <1>3. ASSUME NEW q \in Pool
        PROVE  /\ score'[q] \in Score \cup {NoScore}
               /\ score[q] # NoScore => score'[q] # NoScore
    <2>1. fetched[q].fee \in Nat /\ fetched[q].thin \in BOOLEAN
          BY DEF IInv, TypeOK
    <2>2. score[q] \in Score \cup {NoScore}
          BY DEF IInv, TypeOK
    <2>3. CASE fetched[q].verdict = "kept"
      <3>1. [NoScore EXCEPT !.fee = fetched[q].fee, !.thin = fetched[q].thin] \in Score
            BY <2>1 DEF NoScore, Score, Unknown
      <3>2. score'[q] = Scored(q, Long)
            BY <1>2, <2>3
      <3>3. score'[q] \in Score
            BY <3>1, <3>2, AssessedRow DEF Scored
      <3> QED BY <3>3, RowIsScore
    <2>4. CASE fetched[q].verdict # "kept"
      <3>1. score'[q] = score[q]
            BY <1>2, <2>4
      <3> QED BY <3>1, <2>2
    <2> QED BY <2>3, <2>4
  <1>4. score' \in [Pool -> Score \cup {NoScore}]
    <2>1. DOMAIN score' = Pool /\ score' = [q \in Pool |-> score'[q]]
          BY <1>2
    <2> QED BY <2>1, <1>3
  <1>5. Known \subseteq Known'
        BY <1>3 DEF Known, NoScore
  <1>6. listed' \in [Pool -> BOOLEAN]
        BY Zenon DEF IInv, TypeOK, Persist, Upserted
  <1>7. fetched' \in [Pool -> [verdict : {"none", "black", "gated", "kept"}, fee : Nat, thin : BOOLEAN]]
    <2>1. ASSUME NEW q \in Pool
          PROVE  NoFetch[q] \in [verdict : {"none", "black", "gated", "kept"}, fee : Nat, thin : BOOLEAN]
          BY DEF NoFetch
    <2> QED BY <2>1 DEF Persist, Remembered, IInv, TypeOK
  <1>8. pc' = "volatility"
        BY DEF Persist
  <1>9. blocked' \subseteq Known' /\ held' \subseteq Known' /\ fatal' \subseteq held'
        BY <1>1, <1>5 DEF IInv, TypeOK
  <1>10. TypeOK'
        BY <1>1, <1>4, <1>6, <1>7, <1>8, <1>9 DEF IInv, TypeOK
  <1> QED BY <1>1, <1>8, <1>10 DEF IInv, Calm, ReadClean, Checked

LEMMA VolatilityStep ==
    ASSUME IInv, Volatility
    PROVE  IInv'
  <1>1. UNCHANGED <<venue, prices, mint, dirty, listed, facts, age, blocked, held, fatal, fetched>>
        BY DEF Volatility, world, mints, book
  <1>2. PICK Long \in SUBSET Known :
          score' = [p \in Pool |-> Assessed(score[p], p, Long)]
        BY DEF Volatility
  <1>3. ASSUME NEW q \in Pool
        PROVE  /\ score'[q] \in Score \cup {NoScore}
               /\ score[q] # NoScore => score'[q] # NoScore
    <2>1. score[q] \in Score \cup {NoScore}
          BY DEF IInv, TypeOK
    <2>2. score'[q] = Assessed(score[q], q, Long)
          BY <1>2
    <2>3. CASE q \in Long
      <3>1. score[q] \in Score
            BY <2>1, <2>3, <1>2 DEF Known
      <3>2. score'[q] \in Score
            BY <2>2, <3>1, AssessedRow
      <3> QED BY <3>2, RowIsScore
    <2>4. CASE q \notin Long
      <3>1. score'[q] = score[q]
            BY <2>2, <2>4 DEF Assessed
      <3> QED BY <3>1, <2>1
    <2> QED BY <2>3, <2>4
  <1>4. score' \in [Pool -> Score \cup {NoScore}]
    <2>1. DOMAIN score' = Pool /\ score' = [q \in Pool |-> score'[q]]
          BY <1>2
    <2> QED BY <2>1, <1>3
  <1>5. Known \subseteq Known'
        BY <1>3 DEF Known, NoScore
  <1>6. pc' = "redflags"
        BY DEF Volatility
  <1>7. blocked' \subseteq Known' /\ held' \subseteq Known' /\ fatal' \subseteq held'
        BY <1>1, <1>5 DEF IInv, TypeOK
  <1>8. TypeOK'
        BY <1>1, <1>4, <1>6, <1>7 DEF IInv, TypeOK
  <1> QED BY <1>1, <1>6, <1>8 DEF IInv, Calm, ReadClean, Checked

(* After it every known mint has been read, not long ago, and the hostile  *)
(* ones are blocked, whatever the stage is.                                *)
LEMMA CheckAndFlagKeeps ==
    ASSUME IInv, CheckAndFlag, fetched' = fetched, pc' \in {pc, "manage"}
    PROVE  IInv'
  <1>1. UNCHANGED <<venue, prices, mint, dirty, listed, score, held, fatal, fetched>>
        BY DEF CheckAndFlag, world, book
  <1>2. Known' = Known
        BY <1>1 DEF Known
  <1>3. ASSUME NEW q \in Pool
        PROVE  /\ facts'[q] = IF q \in NeedsCheck THEN mint[q] ELSE facts[q]
               /\ age'[q] = IF q \in NeedsCheck THEN 0 ELSE age[q]
        BY DEF CheckAndFlag, FactsChecked, AgeChecked
  <1>4. /\ facts' \in [Pool -> {"none", "clean", "hostile"}]
        /\ age' \in [Pool -> 0..(MaxAge + 1)]
        BY DEF IInv, TypeOK, CheckAndFlag, FactsChecked, AgeChecked
  <1>5. PICK Watched \in SUBSET Known : blocked' = {p \in Known : Flagged(p, Watched)}
        BY DEF CheckAndFlag, SetBlocks
  <1>6. TypeOK'
        BY <1>1, <1>2, <1>4, <1>5 DEF IInv, TypeOK
  <1>7. Calm'
        BY <1>1 DEF IInv, Calm
  <1>8. ASSUME NEW q \in Pool, facts'[q] = "clean"
        PROVE  dirty[q] <= age'[q]
    <2>1. CASE q \in NeedsCheck
          BY <2>1, <1>3, <1>8 DEF IInv, Calm
    <2>2. CASE q \notin NeedsCheck
          BY <2>2, <1>3, <1>8 DEF IInv, ReadClean
    <2> QED BY <2>1, <2>2
  <1>9. ReadClean'
        BY <1>1, <1>8 DEF ReadClean
  <1>10. ASSUME NEW q \in Known
         PROVE  /\ facts'[q] # "none"
                /\ age'[q] <= MaxAge
                /\ facts'[q] = "hostile" => q \in blocked'
    <2>1. q \in Pool
          BY DEF Known
    <2>2. /\ mint[q] \in {"clean", "hostile"}
          /\ age[q] \in 0..(MaxAge + 1)
          BY <2>1 DEF IInv, TypeOK
    <2>3. facts'[q] # "none" /\ age'[q] <= MaxAge
          BY <1>3, <2>1, <2>2 DEF NeedsCheck
    <2>4. facts'[q] = "hostile" => Flagged(q, Watched)
          BY DEF Flagged
    <2> QED BY <1>5, <2>3, <2>4
  <1>11. Checked'
         BY <1>2, <1>10 DEF Checked
  <1> QED BY <1>6, <1>7, <1>9, <1>11 DEF IInv

(* The book changes among pools that are known, and nothing else does. *)
LEMMA BookKeeps ==
    ASSUME IInv, held' \subseteq Known, fatal' \subseteq held',
           UNCHANGED <<world, listed, score, mints, blocked>>,
           pc' \in {pc, "idle"}, fetched' \in {fetched, NoFetch}
    PROVE  IInv'
  <1>1. UNCHANGED <<venue, prices, mint, dirty, listed, score, facts, age, blocked>>
        BY DEF world, mints
  <1>2. Known' = Known
        BY <1>1 DEF Known
  <1>3. fetched' \in [Pool -> [verdict : {"none", "black", "gated", "kept"}, fee : Nat, thin : BOOLEAN]]
    <2>1. NoFetch \in [Pool -> [verdict : {"none", "black", "gated", "kept"}, fee : Nat, thin : BOOLEAN]]
          BY DEF NoFetch
    <2> QED BY <2>1 DEF IInv, TypeOK
  <1>4. TypeOK'
        BY <1>1, <1>2, <1>3 DEF IInv, TypeOK
  <1>5. Calm' /\ ReadClean'
        BY <1>1 DEF IInv, Calm, ReadClean
  <1>6. Checked'
        BY <1>1, <1>2 DEF IInv, Checked
  <1> QED BY <1>4, <1>5, <1>6 DEF IInv

(* The book is changed among known pools only.                             *)
LEMMA CloseAndAddBook ==
    ASSUME IInv, CloseAndAdd
    PROVE  held' \subseteq Known /\ fatal' \subseteq held'
  <1>1. PICK closed \in SUBSET held :
          /\ \E opened \in SUBSET {p \in Pool : Tradeable(p) /\ p \notin held \ closed} :
               held' = (held \ closed) \cup opened
          /\ fatal' = fatal \ closed
        BY DEF CloseAndAdd
  <1>2. PICK opened \in SUBSET {p \in Pool : Tradeable(p) /\ p \notin held \ closed} :
          held' = (held \ closed) \cup opened
        BY <1>1
  <1>3. opened \subseteq Known
        BY TradeableKnown
  <1> QED BY <1>1, <1>2, <1>3 DEF IInv, TypeOK

-----------------------------------------------------------------------------
(* The inductive invariant over readings, blocks and the candidates.       *)
THEOREM Invariance == Spec => []IInv
  <1>1. IInv /\ [Next]_vars => IInv'
    <2> SUFFICES ASSUME IInv, [Next]_vars PROVE IInv'
        OBVIOUS
    <2>1. ASSUME NEW p \in Pool, VenueChanges(p) \/ PricesChange(p) \/ MintChanges(p) PROVE IInv'
          BY <2>1, VenueStep, PricesStep, MintStep
    <2>2. CASE Tick
          BY <2>2, TickStep
    <2>3. CASE Fetch
          BY <2>3, FetchStep
    <2>4. CASE Persist
          BY <2>4, PersistStep
    <2>5. CASE Volatility
          BY <2>5, VolatilityStep
    <2>6. CASE RedFlags \/ RedFlagsByHand
          BY <2>6, CheckAndFlagKeeps DEF RedFlags, RedFlagsByHand
    <2>7. CASE Manage
      <3>1. CloseAndAdd /\ pc' = "idle" /\ fetched' = NoFetch
            BY <2>7 DEF Manage
      <3>2. UNCHANGED <<world, listed, score, mints, blocked>>
            BY <3>1 DEF CloseAndAdd
      <3> QED BY <3>1, <3>2, CloseAndAddBook, BookKeeps
    <2>8. CASE ManageByHand
      <3>1. CloseAndAdd /\ pc' = pc /\ fetched' = fetched
            BY <2>8 DEF ManageByHand
      <3>2. UNCHANGED <<world, listed, score, mints, blocked>>
            BY <3>1 DEF CloseAndAdd
      <3> QED BY <3>1, <3>2, CloseAndAddBook, BookKeeps
    <2>9. CASE PassFails
      <3>1. held' \subseteq Known /\ fatal' \subseteq held'
            BY <2>9 DEF PassFails, book, IInv, TypeOK
      <3>2. /\ UNCHANGED <<world, listed, score, mints, blocked>>
            /\ pc' = "idle" /\ fetched' = NoFetch
            BY <2>9 DEF PassFails
      <3> QED BY <3>1, <3>2, BookKeeps
    <2>10. CASE Mark \/ MarkAll
      <3>1. MarkAll
            BY <2>10 DEF Mark
      <3>2. held' \subseteq Known /\ fatal' \subseteq held'
            BY <3>1 DEF MarkAll, Marked, IInv, TypeOK
      <3>3. UNCHANGED <<world, listed, score, mints, blocked>> /\ pc' = pc /\ fetched' = fetched
            BY <3>1 DEF MarkAll
      <3> QED BY <3>2, <3>3, BookKeeps
    <2>11. ASSUME NEW p \in Pool, OpenByHand(p) PROVE IInv'
      <3>1. held' \subseteq Known /\ fatal' \subseteq held'
            BY <2>11 DEF OpenByHand, IInv, TypeOK
      <3>2. UNCHANGED <<world, listed, score, mints, blocked>> /\ pc' = pc /\ fetched' = fetched
            BY <2>11 DEF OpenByHand
      <3> QED BY <3>1, <3>2, BookKeeps
    <2>12. CASE UNCHANGED vars
      <3>1. UNCHANGED <<world, listed, score, mints, blocked, held, fatal, pc, fetched>>
            BY <2>12 DEF vars, book
      <3> QED BY <3>1, BookKeeps DEF IInv, TypeOK
    <2> QED BY <2>1, <2>2, <2>3, <2>4, <2>5, <2>6, <2>7, <2>8, <2>9, <2>10, <2>11, <2>12 DEF Next
  <1> QED BY InitIInv, <1>1, PTL DEF Spec

(* The type invariant. *)
THEOREM TypeCorrect == Spec => []TypeOK
  <1>1. IInv => TypeOK
        BY DEF IInv
  <1> QED BY Invariance, <1>1, PTL

(* What the pass may open when it comes to cmd_manage is vetted, however   *)
(* the stages, the marks and the commands by hand interleave.              *)
THEOREM OnlyVetted == Spec => []CandidatesVetted
  <1>1. IInv => CandidatesVetted
    <2> SUFFICES ASSUME IInv, pc = "manage", NEW p \in Pool, Tradeable(p)
                 PROVE  facts[p] # "none" /\ dirty[p] <= MaxAge
        BY DEF CandidatesVetted
    <2>1. p \in Known /\ p \notin blocked
          BY TradeableKnown
    <2>2. facts[p] # "none" /\ facts[p] # "hostile" /\ age[p] <= MaxAge
          BY <2>1 DEF IInv, Checked
    <2>3. facts[p] = "clean"
          BY <2>2 DEF IInv, TypeOK
    <2>4. dirty[p] <= age[p]
          BY <2>3 DEF IInv, ReadClean
    <2>5. dirty[p] \in 0..(MaxAge + 1) /\ age[p] \in 0..(MaxAge + 1)
          BY DEF IInv, TypeOK
    <2> QED BY <2>2, <2>4, <2>5
  <1> QED BY Invariance, <1>1, PTL

=============================================================================
