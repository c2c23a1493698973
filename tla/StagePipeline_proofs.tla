------------------------- MODULE StagePipeline_proofs -------------------------
(***************************************************************************)
(* Theorems about StagePipeline, for every value of its constants.         *)
(***************************************************************************)
EXTENDS StagePipeline, TLAPS, WellFoundedInduction

(***************************************************************************)
(* The latest row of each stage.                                           *)
(***************************************************************************)

(* A nonempty set of indices has a greatest element.                       *)
LEMMA MaxExists ==
  ASSUME NEW n \in Nat, NEW I \in SUBSET (1..n), I # {}
  PROVE  \E m \in I : \A j \in I : j <= m
<1> DEFINE T == {n - k : k \in I}
<1>1. \A k \in I : k \in Nat /\ n - k \in Nat
  OBVIOUS
<1>2. T \subseteq Nat /\ T # {}
  BY <1>1
<1>3. PICK x \in T : \A y \in T : ~(<<y, x>> \in OpToRel(<, Nat))
  <2> HIDE DEF T
  <2> QED BY <1>2, NatLessThanWellFounded, WFMin
<1>4. \A y \in T : ~(y < x)
  BY <1>2, <1>3 DEF OpToRel
<1>5. PICK m \in I : x = n - m
  BY <1>3
<1>6. ASSUME NEW j \in I PROVE j <= m
  <2>1. ~(n - j < n - m)
    BY <1>4, <1>5
  <2> QED BY <1>1, <2>1
<1> QED BY <1>6

(* Last, of any sequence of rows.                                          *)
LastIn(R, s) ==
  LET I == {k \in DOMAIN R : R[k].stage = s}
  IN  IF I = {} THEN 0 ELSE CHOOSE k \in I : \A j \in I : j <= k

LEMMA LastInIs ==
  ASSUME NEW R \in Seq(Rows), NEW s
  PROVE  \/ LastIn(R, s) = 0 /\ \A k \in 1..Len(R) : R[k].stage # s
         \/ /\ LastIn(R, s) \in 1..Len(R)
            /\ R[LastIn(R, s)].stage = s
            /\ \A k \in 1..Len(R) : R[k].stage = s => k <= LastIn(R, s)
<1> DEFINE I == {k \in DOMAIN R : R[k].stage = s}
           m == CHOOSE k \in I : \A j \in I : j <= k
<1>1. DOMAIN R = 1..Len(R) /\ Len(R) \in Nat
  OBVIOUS
<1>2. CASE I = {}
  BY <1>1, <1>2 DEF LastIn
<1>3. CASE I # {}
  <2>1. I \in SUBSET (1..Len(R))
    BY <1>1
  <2>2. m \in I /\ \A j \in I : j <= m
    <3> HIDE DEF I
    <3>1. \E k \in I : \A j \in I : j <= k
      BY <1>1, <1>3, <2>1, MaxExists
    <3> QED BY <3>1
  <2>3. LastIn(R, s) = m
    BY <1>3 DEF LastIn
  <2> HIDE DEF m
  <2> QED BY <1>1, <2>2, <2>3
<1> QED BY <1>2, <1>3

LEMMA LastInUnique ==
  ASSUME NEW R \in Seq(Rows), NEW s, NEW m \in 1..Len(R), R[m].stage = s,
         \A k \in 1..Len(R) : R[k].stage = s => k <= m
  PROVE  LastIn(R, s) = m
<1>1. LastIn(R, s) \in 1..Len(R) /\ R[LastIn(R, s)].stage = s /\ m <= LastIn(R, s)
  BY LastInIs
<1>2. LastIn(R, s) <= m
  BY <1>1
<1> QED BY <1>1, <1>2

(* A row that is inserted becomes the latest of its stage, and of no other.*)
LEMMA LastInAppend ==
  ASSUME NEW R \in Seq(Rows), NEW r \in Rows, NEW s
  PROVE  LastIn(Append(R, r), s) = IF s = r.stage THEN Len(R) + 1 ELSE LastIn(R, s)
<1> DEFINE Q == Append(R, r)
<1>1. /\ Q \in Seq(Rows) /\ Len(Q) = Len(R) + 1 /\ Len(R) \in Nat
      /\ Q[Len(R) + 1] = r /\ \A k \in 1..Len(R) : Q[k] = R[k]
  OBVIOUS
<1> HIDE DEF Q
<1>2. CASE s = r.stage
  <2>1. Len(R) + 1 \in 1..Len(Q) /\ \A k \in 1..Len(Q) : k <= Len(R) + 1
    BY <1>1
  <2>2. LastIn(Q, s) = Len(R) + 1
    BY <1>1, <1>2, <2>1, LastInUnique
  <2> QED BY <1>2, <2>2 DEF Q
<1>3. CASE s # r.stage
  <2>1. \A k \in 1..Len(Q) : Q[k].stage = s => k \in 1..Len(R) /\ R[k].stage = s
    <3> SUFFICES ASSUME NEW k \in 1..Len(Q), Q[k].stage = s
                 PROVE  k \in 1..Len(R) /\ R[k].stage = s
      OBVIOUS
    <3>1. k # Len(R) + 1
      BY <1>1, <1>3
    <3> QED BY <1>1, <3>1
  <2>2. CASE LastIn(R, s) = 0
    <3>1. \A k \in 1..Len(R) : R[k].stage # s
      BY <2>2, LastInIs
    <3>2. LastIn(Q, s) \notin 1..Len(Q) \/ Q[LastIn(Q, s)].stage # s
      BY <2>1, <3>1
    <3>3. LastIn(Q, s) = 0
      BY <1>1, <3>2, LastInIs
    <3> QED BY <1>3, <2>2, <3>3 DEF Q
  <2>3. CASE LastIn(R, s) # 0
    <3> DEFINE m == LastIn(R, s)
    <3>1. m \in 1..Len(R) /\ R[m].stage = s /\ \A k \in 1..Len(R) : R[k].stage = s => k <= m
      BY <2>3, LastInIs
    <3> HIDE DEF m
    <3>2. m \in 1..Len(Q) /\ Q[m].stage = s /\ \A k \in 1..Len(Q) : Q[k].stage = s => k <= m
      BY <1>1, <2>1, <3>1
    <3>3. LastIn(Q, s) = m
      BY <1>1, <3>2, LastInUnique
    <3> QED BY <1>3, <3>3 DEF Q, m
  <2> QED BY <2>2, <2>3
<1> QED BY <1>2, <1>3

(* Rows that change keep their places.                                     *)
LEMMA LastInKept ==
  ASSUME NEW R \in Seq(Rows), NEW Q \in Seq(Rows), Len(Q) = Len(R),
         \A k \in 1..Len(R) : Q[k].stage = R[k].stage, NEW s
  PROVE  LastIn(Q, s) = LastIn(R, s)
<1>1. CASE LastIn(R, s) = 0
  BY <1>1, LastInIs
<1>2. CASE LastIn(R, s) # 0
  <2> DEFINE m == LastIn(R, s)
  <2>1. m \in 1..Len(R) /\ R[m].stage = s /\ \A k \in 1..Len(R) : R[k].stage = s => k <= m
    BY <1>2, LastInIs
  <2> HIDE DEF m
  <2>2. LastIn(Q, s) = m
    BY <2>1, LastInUnique
  <2> QED BY <2>2 DEF m
<1> QED BY <1>1, <1>2

NoRow == [stage |-> "none", status |-> "NONE", attempts |-> 0, sha |-> Nothing, version |-> 0,
          retryable |-> FALSE]

(* The latest row of each stage, which is all that the code reads.         *)
LatestIn(R) == [s \in Stages |-> IF LastIn(R, s) = 0 THEN NoRow ELSE R[LastIn(R, s)]]
Latest == LatestIn(rows)

RowsOK(R) ==
  \A k \in 1..Len(R) : /\ R[k].sha \in Artifacts[R[k].stage] \cup {Nothing}
                       /\ R[k].status = "DONE" <=> R[k].sha # Nothing

LatestRows ==
  [Stages -> {NoRow} \cup {r \in Rows : /\ r.sha \in Artifacts[r.stage] \cup {Nothing}
                                        /\ r.status = "DONE" <=> r.sha # Nothing}]

LEMMA LatestTyped ==
  ASSUME NEW R \in Seq(Rows), RowsOK(R)
  PROVE  /\ LatestIn(R) \in LatestRows
         /\ \A s \in Stages : LatestIn(R)[s] # NoRow => LatestIn(R)[s].stage = s
<1> SUFFICES ASSUME NEW s \in Stages
             PROVE  LET r == LatestIn(R)[s] IN
                    \/ r = NoRow
                    \/ /\ r \in Rows /\ r.sha \in Artifacts[r.stage] \cup {Nothing}
                       /\ r.status = "DONE" <=> r.sha # Nothing
                       /\ r.stage = s
  BY DEF LatestIn, LatestRows
<1>1. LatestIn(R)[s] = IF LastIn(R, s) = 0 THEN NoRow ELSE R[LastIn(R, s)]
  BY DEF LatestIn
<1>2. CASE LastIn(R, s) = 0
  BY <1>1, <1>2
<1>3. CASE LastIn(R, s) # 0
  <2>1. LastIn(R, s) \in 1..Len(R) /\ R[LastIn(R, s)].stage = s
    BY <1>3, LastInIs
  <2>2. R[LastIn(R, s)] \in Rows
    BY <2>1
  <2> QED BY <1>1, <1>3, <2>1, <2>2 DEF RowsOK
<1> QED BY <1>2, <1>3

(* What the code reads of a stage is in its latest row.                    *)
LEMMA ReadLatest ==
  ASSUME rows \in Seq(Rows), NEW s \in Stages
  PROVE  /\ \A st \in RowStatus : StatusIs(s, st) <=> Latest[s].status = st
         /\ Attempts(s) = Latest[s].attempts
         /\ Latest[s].status \in RowStatus => Last(s) # 0 /\ rows[Last(s)] = Latest[s]
<1>1. Last(s) = LastIn(rows, s)
  BY DEF Last, LastIn
<1>2. NoRow.status \notin RowStatus /\ NoRow.attempts = 0
  BY DEF NoRow, RowStatus
<1> QED BY <1>1, <1>2 DEF StatusIs, Attempts, Latest, LatestIn

LEMMA LatestAppend ==
  ASSUME NEW R \in Seq(Rows), NEW r \in Rows
  PROVE  LatestIn(Append(R, r)) = [LatestIn(R) EXCEPT ![r.stage] = r]
<1> DEFINE Q == Append(R, r)
<1>1. /\ Len(R) \in Nat /\ Q[Len(R) + 1] = r /\ \A k \in 1..Len(R) : Q[k] = R[k]
  OBVIOUS
<1>2. r.stage \in Stages
  BY DEF Rows
<1>3. ASSUME NEW s \in Stages
      PROVE  LatestIn(Q)[s] = IF s = r.stage THEN r ELSE LatestIn(R)[s]
  <2>1. LastIn(Q, s) = IF s = r.stage THEN Len(R) + 1 ELSE LastIn(R, s)
    BY LastInAppend
  <2>2. LastIn(R, s) = 0 \/ LastIn(R, s) \in 1..Len(R)
    BY LastInIs
  <2> HIDE DEF Q
  <2> QED BY <1>1, <2>1, <2>2 DEF LatestIn
<1> HIDE DEF Q
<1>4. LatestIn(Q) = [LatestIn(R) EXCEPT ![r.stage] = r]
  BY <1>2, <1>3 DEF LatestIn
<1> QED BY <1>4 DEF Q

LEMMA LatestSet ==
  ASSUME NEW R \in Seq(Rows), NEW s \in Stages, LastIn(R, s) # 0,
         NEW r \in Rows, r.stage = s
  PROVE  /\ [R EXCEPT ![LastIn(R, s)] = r] \in Seq(Rows)
         /\ LatestIn([R EXCEPT ![LastIn(R, s)] = r]) = [LatestIn(R) EXCEPT ![s] = r]
<1> DEFINE m == LastIn(R, s)
           Q == [R EXCEPT ![m] = r]
<1>1. m \in 1..Len(R) /\ R[m].stage = s
  BY LastInIs
<1> HIDE DEF m
<1>2. /\ Q \in Seq(Rows) /\ Len(Q) = Len(R)
      /\ \A k \in 1..Len(R) : Q[k] = IF k = m THEN r ELSE R[k]
  BY <1>1
<1>3. \A k \in 1..Len(R) : Q[k].stage = R[k].stage
  BY <1>1, <1>2
<1> HIDE DEF Q
<1>4. ASSUME NEW t \in Stages
      PROVE  LatestIn(Q)[t] = IF t = s THEN r ELSE LatestIn(R)[t]
  <2>1. LastIn(Q, t) = LastIn(R, t)
    BY <1>2, <1>3, LastInKept
  <2>2. LastIn(R, t) = 0 \/ (LastIn(R, t) \in 1..Len(R) /\ R[LastIn(R, t)].stage = t)
    BY LastInIs
  <2>3. t # s => LastIn(R, t) # m
    BY <1>1, <2>2
  <2> QED BY <1>1, <1>2, <2>1, <2>2, <2>3 DEF LatestIn, m
<1>5. LatestIn(Q) = [LatestIn(R) EXCEPT ![s] = r]
  BY <1>4 DEF LatestIn
<1> QED BY <1>2, <1>5 DEF Q, m

Invalidated(r) ==
  [r EXCEPT !.status = "PENDING", !.sha = Nothing, !.version = 0, !.retryable = FALSE]

(* The rows, and the latest ones, after the stages of D are invalidated.   *)
RowsWithout(R, D) ==
  [k \in DOMAIN R |-> IF \E d \in D : k = LastIn(R, d) THEN Invalidated(R[k]) ELSE R[k]]

LatestWithout(L, D) ==
  [s \in Stages |-> IF s \in D /\ L[s] # NoRow THEN Invalidated(L[s]) ELSE L[s]]

LEMMA LatestInvalidated ==
  ASSUME NEW R \in Seq(Rows), NEW D \in SUBSET Stages
  PROVE  LET Q == RowsWithout(R, D) IN
         /\ Q \in Seq(Rows)
         /\ Len(Q) = Len(R)
         /\ \A k \in 1..Len(R) : Q[k] \in {R[k], Invalidated(R[k])}
         /\ LatestIn(Q) = LatestWithout(LatestIn(R), D)
<1> DEFINE Q == RowsWithout(R, D)
           W == LatestWithout(LatestIn(R), D)
<1>1. \A r \in Rows : Invalidated(r) \in Rows /\ Invalidated(r).stage = r.stage
  BY DEF Rows, Invalidated, Hashes, RowStatus
<1>2. /\ DOMAIN R = 1..Len(R) /\ Len(R) \in Nat
      /\ \A k \in 1..Len(R) : R[k] \in Rows
  OBVIOUS
<1>3. /\ Q \in Seq(Rows) /\ Len(Q) = Len(R)
      /\ \A k \in 1..Len(R) :
           Q[k] = IF \E d \in D : k = LastIn(R, d) THEN Invalidated(R[k]) ELSE R[k]
  <2>1. \A k \in 1..Len(R) : Q[k] \in Rows
    BY <1>1, <1>2 DEF RowsWithout
  <2>2. Q \in Seq(Rows) /\ Len(Q) = Len(R)
    BY <1>2, <2>1 DEF RowsWithout
  <2> QED BY <1>2, <2>2 DEF RowsWithout
<1> HIDE DEF Q
<1>4. \A k \in 1..Len(R) : Q[k].stage = R[k].stage
  BY <1>1, <1>2, <1>3
<1>5. ASSUME NEW s \in Stages PROVE LatestIn(Q)[s] = W[s]
  <2>1. LastIn(Q, s) = LastIn(R, s)
    BY <1>3, <1>4, LastInKept
  <2>2. LastIn(R, s) = 0 \/ (LastIn(R, s) \in 1..Len(R) /\ R[LastIn(R, s)].stage = s)
    BY LastInIs
  <2>3. \A d \in D : LastIn(R, d) = LastIn(R, s) /\ LastIn(R, s) # 0 => d = s
    BY <2>2, LastInIs
  <2>4. \A r \in Rows : r # NoRow
    BY DEF Rows, NoRow, Stages
  <2>5. CASE LastIn(R, s) = 0
    BY <2>1, <2>5 DEF LatestIn, LatestWithout
  <2>6. CASE LastIn(R, s) # 0
    <3>1. LatestIn(R)[s] = R[LastIn(R, s)] /\ LatestIn(R)[s] # NoRow
      BY <1>2, <2>2, <2>4, <2>6 DEF LatestIn
    <3>2. LatestIn(Q)[s] = Q[LastIn(R, s)]
      BY <2>1, <2>6 DEF LatestIn
    <3>3. (\E d \in D : LastIn(R, s) = LastIn(R, d)) <=> s \in D
      BY <2>3, <2>6
    <3> QED BY <1>3, <2>2, <2>6, <3>1, <3>2, <3>3 DEF LatestWithout
  <2> QED BY <2>5, <2>6
<1>6. LatestIn(Q) = W
  BY <1>5 DEF LatestIn, LatestWithout
<1>7. \A k \in 1..Len(R) : Q[k] \in {R[k], Invalidated(R[k])}
  BY <1>3
<1> QED BY <1>3, <1>6, <1>7 DEF Q

(***************************************************************************)
(* What each action does to the latest rows.                               *)
(***************************************************************************)
RowsInv == rows \in Seq(Rows) /\ RowsOK(rows)

LEMMA BeginRows ==
  ASSUME RowsInv, run \in Executions, Begin
  PROVE  LET s == run.stage
             r == [stage |-> s, status |-> "RUNNING", attempts |-> Latest[s].attempts + 1,
                   sha |-> Nothing, version |-> 0, retryable |-> FALSE] IN
         /\ RowsInv'
         /\ Latest' = [Latest EXCEPT ![s] = r]
         /\ run' = [run EXCEPT !.pc = "act", !.attempt = Latest[s].attempts + 1]
<1> DEFINE s == run.stage
           r == [stage |-> s, status |-> "RUNNING", attempts |-> Latest[s].attempts + 1,
                 sha |-> Nothing, version |-> 0, retryable |-> FALSE]
<1>1. s \in Stages
  BY DEF Executions
<1>2. rows \in Seq(Rows) /\ Attempts(s) = Latest[s].attempts
  BY <1>1, ReadLatest DEF RowsInv
<1>3. Latest[s].attempts \in Nat
  <2>1. Latest \in LatestRows
    BY LatestTyped DEF RowsInv, Latest
  <2>2. Latest[s] = NoRow \/ Latest[s] \in Rows
    BY <1>1, <2>1 DEF LatestRows
  <2> QED BY <2>2 DEF Rows, NoRow
<1>4. r \in Rows
  BY <1>1, <1>3 DEF Rows, RowStatus, Hashes
<1>5. rows' = Append(rows, r)
        /\ run' = [run EXCEPT !.pc = "act", !.attempt = Latest[s].attempts + 1]
  BY <1>2 DEF Begin
<1>6. r.sha = Nothing /\ r.status # "DONE" /\ r.stage = s
  OBVIOUS
<1> HIDE DEF r, s
<1>7. Latest' = [Latest EXCEPT ![s] = r]
  BY <1>2, <1>4, <1>5, <1>6, LatestAppend DEF Latest
<1>8. rows' \in Seq(Rows) /\ Len(rows') = Len(rows) + 1
  BY <1>2, <1>4, <1>5
<1>9. ASSUME NEW k \in 1..Len(rows')
      PROVE  /\ rows'[k].sha \in Artifacts[rows'[k].stage] \cup {Nothing}
             /\ rows'[k].status = "DONE" <=> rows'[k].sha # Nothing
  <2>1. k = Len(rows) + 1 \/ k \in 1..Len(rows)
    BY <1>2, <1>8, <1>9
  <2>2. rows'[k] = IF k = Len(rows) + 1 THEN r ELSE rows[k]
    BY <1>2, <1>5, <2>1
  <2> QED BY <1>6, <2>1, <2>2 DEF RowsInv, RowsOK
<1> QED BY <1>5, <1>7, <1>8, <1>9 DEF RowsInv, RowsOK, r, s

(* One of the latest rows is rewritten in place.                           *)
LEMMA SetRow ==
  ASSUME RowsInv, NEW s \in Stages, NEW r \in Rows, r.stage = s, Last(s) # 0,
         r.sha \in Artifacts[s] \cup {Nothing}, r.status = "DONE" <=> r.sha # Nothing,
         rows' = [rows EXCEPT ![Last(s)] = r]
  PROVE  RowsInv' /\ Latest' = [Latest EXCEPT ![s] = r]
<1>1. Last(s) = LastIn(rows, s)
  BY DEF Last, LastIn
<1>2. Latest' = [Latest EXCEPT ![s] = r] /\ rows' \in Seq(Rows)
  <2>1. rows' = [rows EXCEPT ![LastIn(rows, s)] = r] /\ LastIn(rows, s) # 0
    BY <1>1
  <2> DEFINE Q == [rows EXCEPT ![LastIn(rows, s)] = r]
  <2>2. rows \in Seq(Rows)
    BY DEF RowsInv
  <2>3. Q \in Seq(Rows) /\ LatestIn(Q) = [LatestIn(rows) EXCEPT ![s] = r]
    BY <2>1, <2>2, LatestSet
  <2> HIDE DEF Q
  <2>4. rows' = Q
    BY <2>1 DEF Q
  <2> QED BY <2>3, <2>4 DEF Latest
<1>3. \A k \in 1..Len(rows') : k \in 1..Len(rows) /\ rows'[k] \in {r, rows[k]}
  BY DEF RowsInv
<1>4. RowsOK(rows)'
  BY <1>3 DEF RowsInv, RowsOK
<1> QED BY <1>2, <1>4 DEF RowsInv

LEMMA SetDoneRows ==
  ASSUME RowsInv, run \in Executions, SetDone, run.made \in Artifacts[run.stage]
  PROVE  LET s == run.stage IN
         /\ RowsInv'
         /\ Latest[s].status = "RUNNING"
         /\ Latest' = [Latest EXCEPT ![s] =
              [Latest[s] EXCEPT !.status = "DONE", !.sha = run.made,
                              !.version = ProducerVersion(s)]]
<1> DEFINE s == run.stage
           r == [Latest[s] EXCEPT !.status = "DONE", !.sha = run.made,
                              !.version = ProducerVersion(s)]
<1>1. s \in Stages /\ ProducerVersion(s) \in Nat /\ run.made \in Hashes /\ run.made # Nothing
  BY NothingAssumption DEF Executions, ProducerVersion
<1>2. StatusIs(s, "RUNNING") /\ Latest[s].status = "RUNNING" /\ Last(s) # 0
        /\ rows[Last(s)] = Latest[s]
  BY <1>1, ReadLatest DEF SetDone, RowsInv, RowStatus
<1>3. Latest[s] \in Rows /\ Latest[s].stage = s
  BY <1>1, <1>2, LatestTyped DEF RowsInv, Latest, LatestRows, NoRow
<1>4. r \in Rows /\ r.stage = s /\ r.sha = run.made /\ r.status = "DONE"
  BY <1>1, <1>3 DEF Rows, RowStatus
<1>5. rows' = [rows EXCEPT ![Last(s)] = r]
  BY <1>2 DEF SetDone
<1> HIDE DEF s, r
<1>6. RowsInv' /\ Latest' = [Latest EXCEPT ![s] = r]
  <2>1. run.made \in Artifacts[s]
    BY DEF s
  <2> QED BY <1>1, <1>2, <1>4, <1>5, <2>1, SetRow
<1> QED BY <1>2, <1>6 DEF s, r

LEMMA FailedRows ==
  ASSUME RowsInv, run \in Executions, RecordFailure, StatusIs(run.stage, "RUNNING")
  PROVE  LET s == run.stage IN
         /\ RowsInv'
         /\ Latest[s].status = "RUNNING"
         /\ Latest' = [Latest EXCEPT ![s] =
              [Latest[s] EXCEPT !.status = "FAILED", !.retryable = run.retry]]
<1> DEFINE s == run.stage
           r == [Latest[s] EXCEPT !.status = "FAILED", !.retryable = run.retry]
<1>1. s \in Stages /\ run.retry \in BOOLEAN
  BY DEF Executions
<1>2. Latest[s].status = "RUNNING" /\ Last(s) # 0 /\ rows[Last(s)] = Latest[s]
  BY <1>1, ReadLatest DEF RowsInv, RowStatus
<1>3. Latest[s] \in Rows /\ Latest[s].stage = s /\ Latest[s].sha = Nothing
  BY <1>1, <1>2, LatestTyped DEF RowsInv, Latest, LatestRows, NoRow
<1>4. r \in Rows /\ r.stage = s /\ r.sha = Nothing /\ r.status = "FAILED"
  BY <1>1, <1>3 DEF Rows, RowStatus
<1>5. rows' = [rows EXCEPT ![Last(s)] = r]
  BY <1>2 DEF RecordFailure
<1> HIDE DEF s, r
<1>6. RowsInv' /\ Latest' = [Latest EXCEPT ![s] = r]
  BY <1>1, <1>2, <1>4, <1>5, SetRow
<1> QED BY <1>2, <1>6 DEF s, r

LEMMA InvalidateRows ==
  ASSUME RowsInv, run \in Executions, Invalidate
  PROVE  RowsInv' /\ Latest' = LatestWithout(Latest, Downstream[run.stage])
<1> DEFINE D == Downstream[run.stage]
           Q == RowsWithout(rows, D)
<1>1. D \in SUBSET Stages
  BY DEF Executions, Stages, Downstream
<1>2. \A d : Last(d) = LastIn(rows, d)
  BY DEF Last, LastIn
<1>3. rows' = Q
  BY <1>2 DEF Invalidate, Invalidated, RowsWithout
<1> HIDE DEF D
<1>4. /\ Q \in Seq(Rows) /\ Len(Q) = Len(rows)
      /\ \A k \in 1..Len(rows) : Q[k] \in {rows[k], Invalidated(rows[k])}
      /\ LatestIn(Q) = LatestWithout(LatestIn(rows), D)
  BY <1>1, LatestInvalidated DEF RowsInv
<1> HIDE DEF Q
<1>5. Latest' = LatestIn(Q)
  BY <1>3 DEF Latest
<1>6. RowsOK(Q)
  <2> SUFFICES ASSUME NEW k \in 1..Len(rows)
               PROVE  /\ Q[k].sha \in Artifacts[Q[k].stage] \cup {Nothing}
                      /\ Q[k].status = "DONE" <=> Q[k].sha # Nothing
    BY <1>4 DEF RowsOK
  <2>1. rows[k] \in Rows
    BY DEF RowsInv
  <2>2. /\ Invalidated(rows[k]).status = "PENDING" /\ Invalidated(rows[k]).sha = Nothing
        /\ Invalidated(rows[k]).stage = rows[k].stage
    BY <2>1 DEF Rows, Invalidated
  <2> QED BY <1>4, <2>2 DEF RowsInv, RowsOK
<1> QED BY <1>3, <1>4, <1>5, <1>6 DEF RowsInv, Latest, D

(***************************************************************************)
(* The inductive invariant.                                                *)
(***************************************************************************)
Done(s) == Latest[s].status = "DONE"

(* The checkpoint of the stage is good for the running version.            *)
Fresh(s) == Done(s) /\ file[s] = Latest[s].sha /\ Latest[s].version = ProducerVersion(s)

(* The stage must not run again.                                           *)
Spent(s) ==
  Latest[s].status = "FAILED" /\ (~Latest[s].retryable \/ Latest[s].attempts >= MaxAttempts)

(* The artifact of a DONE row is the one in the store, unless it was lost: *)
(* the store is written only while the stage's row is RUNNING.             *)
FilesFollowRows == \A s \in Stages : Done(s) => file[s] \in {Nothing, Latest[s].sha}

(* DONE rows belong together, whether their artifacts are still there or   *)
(* not: this is what invalidating downstream rows before an attempt is for.*)
RowsAgree ==
  \A u, d \in Stages :
    <<u, d>> \in Edges /\ Done(u) /\ Done(d) => Latest[d].sha.from = Latest[u].sha

(* The stages before the one that runs are DONE, and the transcript in     *)
(* memory is the recorded one.                                             *)
StagesBefore ==
  /\ run.stage # "TRANSCODE" => Done("TRANSCODE")
  /\ run.stage \in {"EMOTION", "QC"} => Done("ASR") /\ run.turns = Latest["ASR"].sha

(* An attempt has its RUNNING row, nothing downstream of it is DONE, and   *)
(* what it made is made from the recorded inputs.                          *)
AttemptInStep ==
  LET s == run.stage IN
  /\ run.pc \in {"act", "acted", "put", "record"} => Latest[s].status = "RUNNING"
  /\ run.pc \in {"act", "acted", "put", "record", "fail"} => run.attempt = Latest[s].attempts
  /\ run.pc \in {"begin", "act", "acted", "put", "record", "fail"} =>
       \A d \in Downstream[s] : ~Done(d)
  /\ run.pc \in {"acted", "put", "record"} =>
       /\ run.made \in Artifacts[s]
       /\ s \in {"ASR", "EMOTION"} => run.made.from = Latest["TRANSCODE"].sha
       /\ s = "QC" => run.made.from = run.turns
  /\ run.pc = "record" => file[s] \in {Nothing, run.made}

(* A checkpoint being read is DONE; a stage about to run is neither fresh  *)
(* nor spent.                                                              *)
CheckpointInStep ==
  LET s == run.stage IN
  /\ run.pc \in {"verify", "read"} => Done(s) /\ run.sha = Latest[s].sha
  /\ run.pc \in {"check", "invalidate", "begin"} => ~Fresh(s)
  /\ run.pc \in {"invalidate", "begin"} => ~Spent(s)

(* A finished execution has the recorded analysis, a failed one its cause. *)
EndInStep ==
  /\ run.failed => run.pc \in {"final", "interrupt"}
  /\ run.pc = "final" /\ ~run.failed =>
       run.stage = "QC" /\ Done("QC") /\ run.made = Latest["QC"].sha
  /\ run.pc = "final" /\ run.failed => run.late \/ Spent(run.stage)

InStep == StagesBefore /\ AttemptInStep /\ CheckpointInStep /\ EndInStep

RestOK ==
  /\ item \in {"PENDING", "RUNNING", "INTERRUPTED", "FINAL"}
  /\ file \in [Stages -> Hashes]
  /\ \A s \in Stages : file[s] \in Artifacts[s] \cup {Nothing}
  /\ reports \in Nat /\ deployed \in Nat /\ faults \in Nat /\ damages \in Nat
  /\ run \in Executions
  /\ run.stage = "QC" => run.turns \in Transcripts
  /\ result \in FileResults \cup {Nothing}
  /\ item = "FINAL" <=> result # Nothing

IInv ==
  /\ RowsInv
  /\ RestOK
  /\ FilesFollowRows
  /\ RowsAgree
  /\ InStep
  /\ ResultMatchesRequest

LEMMA TypeParts == TypeOK <=> RowsInv /\ RestOK
BY DEF TypeOK, RowsInv, RowsOK, RestOK

LEMMA RowsKept == UNCHANGED rows /\ RowsInv => RowsInv' /\ Latest' = Latest
BY DEF RowsInv, RowsOK, Latest

LEMMA LatestInv ==
  ASSUME RowsInv
  PROVE  /\ Latest \in LatestRows
         /\ \A s \in Stages : Done(s) =>
              Latest[s].sha \in Artifacts[s] /\ Latest[s].sha # Nothing /\ Latest[s] # NoRow
<1>1. Latest \in LatestRows /\ \A s \in Stages : Latest[s] # NoRow => Latest[s].stage = s
  BY LatestTyped DEF RowsInv, Latest
<1>2. \A s \in Stages : Done(s) => Latest[s] # NoRow
  BY DEF Done, NoRow
<1> QED BY <1>1, <1>2 DEF Done, LatestRows

LEMMA Made ==
  /\ \A s \in Stages : \A a \in Artifacts[s] : a # Nothing /\ a \in Hashes
  /\ \A a \in Transcripts \cup Emotions : a.from # Nothing
  /\ Artifacts["TRANSCODE"] = Wavs /\ Artifacts["ASR"] = Transcripts
  /\ Artifacts["EMOTION"] = Emotions /\ Artifacts["QC"] = Analyses
  /\ \A a \in Analyses : a.from # Nothing /\ a.from \in Transcripts
<1>1. /\ Artifacts["TRANSCODE"] = Wavs /\ Artifacts["ASR"] = Transcripts
      /\ Artifacts["EMOTION"] = Emotions /\ Artifacts["QC"] = Analyses
  BY DEF Artifacts
<1>2. Nothing \notin Wavs /\ Nothing \notin Transcripts
  BY <1>1, NothingAssumption DEF Stages
<1>3. \A a \in Transcripts \cup Emotions : a.from \in Wavs
  BY DEF Transcripts, Emotions
<1>4. \A a \in Analyses : a.from \in Transcripts
  BY DEF Analyses
<1>5. \A s \in Stages : \A a \in Artifacts[s] : a # Nothing /\ a \in Hashes
  BY NothingAssumption DEF Hashes
<1> QED BY <1>1, <1>2, <1>3, <1>4, <1>5


(***************************************************************************)
(* What each kind of move does to the execution.                           *)
(***************************************************************************)
SameStage == run'.stage = run.stage /\ run'.turns = run.turns /\ run'.version = run.version

LEMMA GotoMove ==
  ASSUME run \in Executions, Goto("verify") \/ Goto("read") \/ Goto("check") \/ Goto("invalidate")
                             \/ Goto("begin") \/ Goto("put") \/ Goto("record") \/ Goto("interrupt")
  PROVE  /\ run' \in Executions /\ SameStage
         /\ run' = [run EXCEPT !.pc = run'.pc]
         /\ run'.failed = run.failed /\ run'.late = run.late /\ run'.sha = run.sha
         /\ run'.made = run.made /\ run'.attempt = run.attempt
BY DEF Goto, Executions, SameStage

LEMMA GotoPc ==
  ASSUME run \in Executions, NEW pc, Goto(pc)
  PROVE  run'.pc = pc
BY DEF Goto, Executions

LEMMA GiveUpMove ==
  ASSUME run \in Executions, GiveUp
  PROVE  /\ run' \in Executions /\ SameStage
         /\ run'.pc = "final" /\ run'.failed /\ run'.late = run.late
BY DEF GiveUp, Executions, Hashes, SameStage

LEMMA VerifyMove ==
  ASSUME run \in Executions, NEW sha \in Hashes, run' = [run EXCEPT !.pc = "verify", !.sha = sha]
  PROVE  /\ run' \in Executions /\ SameStage
         /\ run'.pc = "verify" /\ run'.sha = sha /\ run'.failed = run.failed
BY DEF Executions, SameStage

LEMMA CheckMove ==
  ASSUME run \in Executions, run' = [run EXCEPT !.pc = "check", !.sha = Nothing]
  PROVE  /\ run' \in Executions /\ SameStage
         /\ run'.pc = "check" /\ run'.failed = run.failed
BY DEF Executions, SameStage, Hashes

LEMMA LastStageMove ==
  ASSUME run \in Executions, NEW value \in Hashes, run.stage = "QC", Finished(value)
  PROVE  /\ run' \in Executions /\ SameStage
         /\ run'.pc = "final" /\ run'.made = value /\ run'.failed = run.failed
BY DEF Executions, Finished, SameStage, Hashes

LEMMA NextStageMove ==
  ASSUME run \in Executions, NEW value, run.stage # "QC", Finished(value),
         run.stage = "ASR" => value \in Transcripts
  PROVE  /\ run' \in Executions /\ run'.version = run.version
         /\ run'.pc = "enter" /\ run'.stage = Following[run.stage] /\ run'.failed = run.failed
         /\ run'.turns = IF run.stage = "ASR" THEN value ELSE run.turns
<1> DEFINE done == [run EXCEPT !.attempt = 0, !.sha = Nothing, !.slow = FALSE, !.retry = FALSE]
           turns == IF run.stage = "ASR" THEN value ELSE run.turns
           next == [done EXCEPT !.pc = "enter", !.stage = Following[run.stage], !.made = Nothing,
                                !.turns = turns]
<1>1. /\ done \in Executions /\ done.version = run.version /\ done.failed = run.failed
      /\ done.stage = run.stage /\ done.turns = run.turns
  BY DEF Executions, Hashes
<1>2. Following[run.stage] \in Stages
  BY DEF Following, Stages, Executions
<1>3. turns \in Transcripts \cup {Nothing}
  BY DEF Executions
<1>4. run' = next
  BY <1>1 DEF Finished
<1> HIDE DEF done, turns
<1>5. /\ next \in Executions /\ next.pc = "enter" /\ next.stage = Following[run.stage]
      /\ next.version = done.version /\ next.failed = done.failed /\ next.turns = turns
  BY <1>1, <1>2, <1>3 DEF Executions, Hashes
<1> QED BY <1>1, <1>4, <1>5 DEF turns

LEMMA BeginMove ==
  ASSUME run \in Executions, NEW n \in Nat, run' = [run EXCEPT !.pc = "act", !.attempt = n]
  PROVE  /\ run' \in Executions /\ SameStage
         /\ run'.pc = "act" /\ run'.attempt = n /\ run'.failed = run.failed
BY DEF Executions, SameStage

LEMMA FailMove ==
  ASSUME run \in Executions, NEW retry \in BOOLEAN, Fail(retry)
  PROVE  /\ run' \in Executions /\ SameStage
         /\ run'.pc = "fail" /\ run'.attempt = run.attempt /\ run'.failed = run.failed
BY DEF Executions, Fail, SameStage, Hashes

LEMMA ActMove ==
  ASSUME run \in Executions, NEW a \in Hashes, NEW slow \in BOOLEAN,
         run' = [run EXCEPT !.pc = "acted", !.made = a, !.slow = slow]
  PROVE  /\ run' \in Executions /\ SameStage
         /\ run'.pc = "acted" /\ run'.made = a /\ run'.attempt = run.attempt
              /\ run'.failed = run.failed
BY DEF Executions, SameStage

LEMMA RetryMove ==
  ASSUME run \in Executions, run' = [run EXCEPT !.pc = "begin", !.retry = FALSE]
  PROVE  /\ run' \in Executions /\ SameStage
         /\ run'.pc = "begin" /\ run'.failed = run.failed
BY DEF Executions, SameStage

LEMMA LateMove ==
  ASSUME run \in Executions, run' = [run EXCEPT !.late = TRUE]
  PROVE  /\ run' \in Executions /\ SameStage
         /\ run'.pc = run.pc /\ run'.failed = run.failed /\ run'.sha = run.sha
         /\ run'.made = run.made /\ run'.attempt = run.attempt
BY DEF Executions, SameStage

LEMMA IdleMove ==
  ASSUME deployed \in Nat,
         run' = Idle \/ run' = [Idle EXCEPT !.pc = "enter", !.version = deployed]
  PROVE  /\ run' \in Executions /\ run'.stage = "TRANSCODE"
         /\ run'.pc \in {"off", "enter"} /\ ~run'.failed
<1>1. Idle \in Executions /\ Idle.stage = "TRANSCODE" /\ Idle.pc = "off" /\ ~Idle.failed
  BY DEF Executions, Idle, Hashes, Stages
<1>2. CASE run' = [Idle EXCEPT !.pc = "enter", !.version = deployed]
  BY <1>1, <1>2 DEF Executions
<1> QED BY <1>1, <1>2

(* A step that changes only the execution, and leaves its stage.           *)
LEMMA SameStageKept ==
  ASSUME SameStage, Latest' = Latest, UNCHANGED file
  PROVE  /\ StagesBefore => StagesBefore'
         /\ \A s \in Stages : (Done(s)' <=> Done(s)) /\ (Fresh(s)' <=> Fresh(s))
              /\ (Spent(s)' <=> Spent(s))
BY DEF SameStage, StagesBefore, Done, Fresh, Spent, ProducerVersion

MoveVars == <<item, rows, file, result, damages>>

LEMMA MoveInductive ==
  ASSUME IInv, UNCHANGED MoveVars, faults' \in Nat, reports' \in Nat, deployed' \in Nat,
         run' \in Executions, run'.stage = "QC" => run'.turns \in Transcripts, InStep'
  PROVE  IInv'
BY RowsKept DEF IInv, MoveVars, RestOK, FilesFollowRows, RowsAgree, ResultMatchesRequest, Done

(* Moves within a stage.                                                   *)
LEMMA StageMoveInductive ==
  ASSUME IInv, UNCHANGED MoveVars, faults' \in Nat, reports' \in Nat, deployed' \in Nat,
         run' \in Executions, SameStage, AttemptInStep', CheckpointInStep', EndInStep'
  PROVE  IInv'
<1>1. Latest' = Latest /\ UNCHANGED file
  BY RowsKept DEF IInv, MoveVars
<1>2. StagesBefore'
  BY <1>1, SameStageKept DEF IInv, InStep
<1>3. run'.stage = "QC" => run'.turns \in Transcripts
  BY DEF IInv, RestOK, SameStage
<1> QED BY <1>2, <1>3, MoveInductive DEF InStep

LEMMA LocalFacts ==
  ASSUME IInv
  PROVE  /\ run \in Executions /\ run.stage \in Stages /\ RowsInv /\ rows \in Seq(Rows)
         /\ reports \in Nat /\ faults \in Nat /\ deployed \in Nat
         /\ \A st \in RowStatus : StatusIs(run.stage, st) <=> Latest[run.stage].status = st
         /\ Latest[run.stage].status \in RowStatus => rows[Last(run.stage)] = Latest[run.stage]
         /\ Attempts(run.stage) = Latest[run.stage].attempts
         /\ \A s \in Stages : Done(s) =>
              /\ Latest[s].sha \in Hashes /\ Latest[s].sha \in Artifacts[s]
              /\ Latest[s].sha # Nothing
<1>1. run \in Executions /\ run.stage \in Stages /\ RowsInv /\ rows \in Seq(Rows)
  BY DEF IInv, RestOK, RowsInv, Executions
<1> QED BY <1>1, ReadLatest, LatestInv, Made DEF IInv, RestOK

LEMMA EnterInductive == IInv /\ Enter => IInv'
<1> SUFFICES ASSUME IInv, Enter PROVE IInv'
  OBVIOUS
<1> DEFINE s == run.stage
<1>1. s \in Stages /\ run \in Executions /\ RowsInv
  BY LocalFacts
<1>2. UNCHANGED MoveVars /\ reports' \in Nat /\ faults' \in Nat /\ deployed' \in Nat
      /\ Latest' = Latest /\ UNCHANGED file
  BY LocalFacts, RowsKept DEF Enter, Local, MoveVars
<1>3. ~run.failed /\ run.pc = "enter"
  BY DEF Enter, At, IInv, InStep, EndInStep
<1>4. CASE run.late
  <2>1. GiveUp
    BY <1>4 DEF Enter
  <2>2. /\ run' \in Executions /\ SameStage
        /\ run'.pc = "final" /\ run'.failed /\ run'.late = run.late
    BY <1>1, <2>1, GiveUpMove
  <2> QED BY <1>2, <1>4, <2>2, StageMoveInductive DEF AttemptInStep, CheckpointInStep, EndInStep
<1>5. CASE ~run.late /\ Done(s) /\ Latest[s].version = ProducerVersion(s)
  <2>1. run' = [run EXCEPT !.pc = "verify", !.sha = Latest[s].sha] /\ Latest[s].sha \in Hashes
    BY <1>1, <1>5, LocalFacts DEF Enter, Done, RowStatus
  <2>2. /\ run' \in Executions /\ SameStage
        /\ run'.pc = "verify" /\ run'.sha = Latest[s].sha /\ run'.failed = run.failed
    BY <1>1, <2>1, VerifyMove
  <2> QED BY <1>1, <1>2, <1>3, <1>5, <2>2, SameStageKept, StageMoveInductive
          DEF AttemptInStep, CheckpointInStep, EndInStep, SameStage
<1>6. CASE ~run.late /\ ~(Done(s) /\ Latest[s].version = ProducerVersion(s))
  <2>1. Goto("check") /\ ~Fresh(s)
    BY <1>1, <1>6, LocalFacts DEF Enter, Done, RowStatus, Fresh
  <2>2. run' \in Executions /\ SameStage /\ run'.failed = run.failed /\ run'.pc = "check"
    BY <1>1, <2>1, GotoMove, GotoPc
  <2> QED BY <1>1, <1>2, <1>3, <2>1, <2>2, SameStageKept, StageMoveInductive
          DEF AttemptInStep, CheckpointInStep, EndInStep, SameStage
<1> QED BY <1>4, <1>5, <1>6

(* A stage whose value is the one recorded: the next stage is entered, or  *)
(* the file ends.                                                          *)
LEMMA FinishedInStep ==
  ASSUME run \in Executions, NEW value \in Hashes, Finished(value), ~run.failed,
         StagesBefore,
         Latest' = Latest \/ (\A s \in Stages : s # run.stage => Latest'[s] = Latest[s]),
         Latest'[run.stage].status = "DONE", Latest'[run.stage].sha \in Artifacts[run.stage],
         run.stage # "TRANSCODE" => value = Latest'[run.stage].sha,
         run.stage = "QC" => run.turns \in Transcripts,
         Done("ASR") => Latest["ASR"].sha \in Transcripts
  PROVE  /\ run' \in Executions /\ InStep'
         /\ run'.stage = "QC" => run'.turns \in Transcripts
<1>1. CASE run.stage = "QC"
  <2>1. /\ run' \in Executions /\ SameStage
        /\ run'.pc = "final" /\ run'.made = value /\ run'.failed = run.failed
    BY <1>1, LastStageMove
  <2>2. \A s \in {"TRANSCODE", "ASR"} : Latest'[s] = Latest[s]
    BY <1>1 DEF Stages
  <2>3. StagesBefore'
    BY <1>1, <2>1, <2>2 DEF StagesBefore, SameStage, Done
  <2>4. AttemptInStep' /\ CheckpointInStep' /\ EndInStep'
    BY <1>1, <2>1 DEF AttemptInStep, CheckpointInStep, EndInStep, SameStage, Done
  <2> QED BY <1>1, <2>1, <2>3, <2>4 DEF InStep, SameStage
<1>2. CASE run.stage # "QC"
  <2>1. run.stage = "ASR" => value \in Transcripts
    BY Made
  <2>2. /\ run' \in Executions
        /\ run'.pc = "enter" /\ run'.stage = Following[run.stage] /\ run'.failed = run.failed
        /\ run'.turns = IF run.stage = "ASR" THEN value ELSE run.turns
    BY <1>2, <2>1, NextStageMove
  <2>3. run.stage \in {"TRANSCODE", "ASR", "EMOTION"}
    BY <1>2 DEF Executions, Stages
  <2>4. run.stage # "TRANSCODE" => Done("TRANSCODE")'
    BY DEF StagesBefore, Done, Stages
  <2>5. run.stage = "EMOTION" => Done("ASR")' /\ run.turns = Latest'["ASR"].sha
          /\ Latest'["ASR"] = Latest["ASR"]
    BY DEF StagesBefore, Done, Stages
  <2>6. StagesBefore'
    <3>1. CASE run.stage = "TRANSCODE"
      <4>1. run'.stage = "ASR" /\ Latest'["TRANSCODE"].status = "DONE"
        BY <2>2, <3>1 DEF Following
      <4> QED BY <4>1 DEF StagesBefore, Done
    <3>2. CASE run.stage = "ASR"
      <4>1. /\ run'.stage = "EMOTION" /\ Latest'["ASR"].status = "DONE"
            /\ run'.turns = Latest'["ASR"].sha
        BY <2>2, <3>2 DEF Following
      <4> QED BY <2>4, <3>2, <4>1 DEF StagesBefore, Done
    <3>3. CASE run.stage = "EMOTION"
      <4>1. run'.stage = "QC" /\ run'.turns = run.turns
        BY <2>2, <3>3 DEF Following
      <4> QED BY <2>4, <2>5, <3>3, <4>1 DEF StagesBefore, Done
    <3> QED BY <2>3, <3>1, <3>2, <3>3
  <2>7. AttemptInStep' /\ CheckpointInStep' /\ EndInStep'
    BY <2>2 DEF AttemptInStep, CheckpointInStep, EndInStep
  <2>8. run'.stage = "QC" => run'.turns \in Transcripts
    <3>1. run'.stage = "QC" => run.stage = "EMOTION" /\ run'.turns = run.turns
      BY <2>2, <2>3 DEF Following
    <3>2. run.stage = "EMOTION" => run.turns \in Transcripts
      BY DEF StagesBefore
    <3> QED BY <3>1, <3>2
  <2> QED BY <2>2, <2>6, <2>7, <2>8 DEF InStep
<1> QED BY <1>1, <1>2

LEMMA VerifyInductive == IInv /\ (Verify \/ ReadArtifact) => IInv'
<1> SUFFICES ASSUME IInv, Verify \/ ReadArtifact PROVE IInv'
  OBVIOUS
<1> DEFINE s == run.stage
<1>1. s \in Stages /\ run \in Executions /\ RowsInv
  BY LocalFacts
<1>2. UNCHANGED MoveVars /\ reports' \in Nat /\ faults' \in Nat /\ deployed' \in Nat
      /\ Latest' = Latest /\ UNCHANGED file
  BY LocalFacts, RowsKept DEF Verify, ReadArtifact, Local, MoveVars
<1>3. /\ ~run.failed /\ Done(s) /\ run.sha = Latest[s].sha
      /\ run.sha # Nothing /\ run.sha \in Hashes /\ file[s] \in {Nothing, Latest[s].sha}
  BY <1>1, LocalFacts DEF Verify, ReadArtifact, At, IInv, InStep, EndInStep, CheckpointInStep,
     FilesFollowRows
<1>4. CASE run' = [run EXCEPT !.pc = "check", !.sha = Nothing] /\ file[s] # run.sha
  <2>1. /\ run' \in Executions /\ SameStage
        /\ run'.pc = "check" /\ run'.failed = run.failed
    BY <1>1, <1>4, CheckMove
  <2>2. ~Fresh(s)
    BY <1>3, <1>4 DEF Fresh
  <2> QED BY <1>1, <1>2, <1>3, <2>1, <2>2, SameStageKept, StageMoveInductive
          DEF AttemptInStep, CheckpointInStep, EndInStep, SameStage
<1>5. CASE Goto("read")
  <2>1. run' \in Executions /\ SameStage /\ run'.failed = run.failed /\ run'.sha = run.sha
          /\ run'.pc = "read"
    BY <1>1, <1>5, GotoMove, GotoPc
  <2> QED BY <1>1, <1>2, <1>3, <2>1, SameStageKept, StageMoveInductive
          DEF AttemptInStep, CheckpointInStep, EndInStep, SameStage
<1>6. CASE \E value \in Hashes : Finished(value) /\ (s # "TRANSCODE" => value = Latest[s].sha)
  <2>1. PICK value \in Hashes : Finished(value) /\ (s # "TRANSCODE" => value = Latest[s].sha)
    BY <1>6
  <2>2. Latest'[run.stage].status = "DONE" /\ Latest'[run.stage].sha \in Artifacts[run.stage]
    BY <1>1, <1>2, <1>3, LocalFacts DEF Done
  <2>3. Done("ASR") => Latest["ASR"].sha \in Transcripts
    BY LocalFacts, Made DEF Stages
  <2>4. StagesBefore /\ (run.stage = "QC" => run.turns \in Transcripts)
    BY DEF IInv, RestOK, InStep
  <2>5. run' \in Executions /\ InStep' /\ (run'.stage = "QC" => run'.turns \in Transcripts)
    BY <1>1, <1>2, <1>3, <2>1, <2>2, <2>3, <2>4, FinishedInStep
  <2> QED BY <1>2, <2>5, MoveInductive
<1>7. Verify => \/ run' = [run EXCEPT !.pc = "check", !.sha = Nothing] /\ file[s] # run.sha
                \/ Goto("read")
                \/ s = "TRANSCODE" /\ Finished(Nothing)
  BY DEF Verify
<1>8. ReadArtifact => \/ run' = [run EXCEPT !.pc = "check", !.sha = Nothing] /\ file[s] = Nothing
                      \/ file[s] # Nothing /\ Finished(file[s])
  BY DEF ReadArtifact
<1>9. Nothing \in Hashes
  BY DEF Hashes
<1>10. CASE Verify
  BY <1>4, <1>5, <1>6, <1>7, <1>9, <1>10
<1>11. CASE ReadArtifact
  <2>1. file[s] # Nothing => file[s] = Latest[s].sha /\ file[s] \in Hashes
    BY <1>3
  <2> QED BY <1>3, <1>4, <1>6, <1>8, <1>11, <2>1
<1> QED BY <1>10, <1>11

LEMMA CheckInductive == IInv /\ Check => IInv'
<1> SUFFICES ASSUME IInv, Check PROVE IInv'
  OBVIOUS
<1> DEFINE s == run.stage
<1>1. s \in Stages /\ run \in Executions /\ RowsInv
  BY LocalFacts
<1>2. UNCHANGED MoveVars /\ reports' \in Nat /\ faults' \in Nat /\ deployed' \in Nat
      /\ Latest' = Latest /\ UNCHANGED file
  BY LocalFacts, RowsKept DEF Check, Local, MoveVars
<1>3. ~run.failed /\ ~Fresh(s)
  BY DEF Check, At, IInv, InStep, EndInStep, CheckpointInStep
<1>4. Exhausted(s) <=> Spent(s)
  BY <1>1, LocalFacts DEF Exhausted, Spent, RowStatus
<1>5. CASE Spent(s)
  <2>1. GiveUp
    BY <1>4, <1>5 DEF Check
  <2>2. /\ run' \in Executions /\ SameStage
        /\ run'.pc = "final" /\ run'.failed
    BY <1>1, <2>1, GiveUpMove
  <2> QED BY <1>1, <1>2, <1>5, <2>2, SameStageKept, StageMoveInductive
          DEF AttemptInStep, CheckpointInStep, EndInStep, SameStage
<1>6. CASE ~Spent(s)
  <2>1. Goto("invalidate")
    BY <1>4, <1>6 DEF Check
  <2>2. run' \in Executions /\ SameStage /\ run'.failed = run.failed /\ run'.pc = "invalidate"
    BY <1>1, <2>1, GotoMove, GotoPc
  <2> QED BY <1>1, <1>2, <1>3, <1>6, <2>2, SameStageKept, StageMoveInductive
          DEF AttemptInStep, CheckpointInStep, EndInStep, SameStage
<1> QED BY <1>5, <1>6

LEMMA ActInductive == IInv /\ (Act \/ ActRaises \/ Judge) => IInv'
<1> SUFFICES ASSUME IInv, Act \/ ActRaises \/ Judge PROVE IInv'
  OBVIOUS
<1> DEFINE s == run.stage
<1>1. s \in Stages /\ run \in Executions /\ RowsInv
  BY LocalFacts
<1>2. UNCHANGED MoveVars /\ reports' \in Nat /\ faults' \in Nat /\ deployed' \in Nat
      /\ Latest' = Latest /\ UNCHANGED file
  <2>1. UNCHANGED <<item, rows, file, result, damages, faults, deployed>>
    BY DEF Act, ActRaises, Judge, Local
  <2>2. reports' \in {reports, reports + 1}
    BY DEF Act, ActRaises, Judge, Local
  <2> QED BY <2>1, <2>2, LocalFacts, RowsKept DEF MoveVars
<1>3. /\ ~run.failed /\ Latest[s].status = "RUNNING" /\ run.attempt = Latest[s].attempts
      /\ \A d \in Downstream[s] : ~Done(d)
  BY DEF Act, ActRaises, Judge, At, IInv, InStep, EndInStep, AttemptInStep
<1>4. Downstream[s] \subseteq Stages
  BY <1>1 DEF Downstream, Stages
<1>5. CASE \E retry \in BOOLEAN : Fail(retry)
  <2>1. /\ run' \in Executions /\ SameStage
        /\ run'.pc = "fail" /\ run'.attempt = run.attempt /\ run'.failed = run.failed
    BY <1>1, <1>5, FailMove
  <2> QED BY <1>1, <1>2, <1>3, <1>4, <2>1, SameStageKept, StageMoveInductive
          DEF AttemptInStep, CheckpointInStep, EndInStep, SameStage
<1>6. CASE Act
  <2>1. PICK a \in Artifacts[s], slow \in BOOLEAN :
           a.from = Input /\ run' = [run EXCEPT !.pc = "acted", !.made = a, !.slow = slow]
    BY <1>6 DEF Act
  <2>2. /\ run' \in Executions /\ SameStage
        /\ run'.pc = "acted" /\ run'.made = a /\ run'.attempt = run.attempt
             /\ run'.failed = run.failed
    <3>1. a \in Hashes
      BY <1>1, Made
    <3> QED BY <1>1, <2>1, <3>1, ActMove
  <2>3. s \in {"ASR", "EMOTION"} => a.from = Latest["TRANSCODE"].sha
    <3>1. s \in {"ASR", "EMOTION"} => a.from = file["TRANSCODE"] /\ a.from # Nothing
      BY <2>1, Made DEF Input
    <3>2. s # "TRANSCODE" => Done("TRANSCODE")
      BY DEF IInv, InStep, StagesBefore
    <3> QED BY <3>1, <3>2 DEF IInv, FilesFollowRows, Stages
  <2>4. s = "QC" => a.from = run.turns
    BY <2>1 DEF Input
  <2> QED BY <1>1, <1>2, <1>3, <1>4, <2>1, <2>2, <2>3, <2>4, SameStageKept, StageMoveInductive
          DEF AttemptInStep, CheckpointInStep, EndInStep, SameStage
<1>7. CASE Judge /\ Goto("put")
  <2>1. /\ run' \in Executions /\ SameStage /\ run'.failed = run.failed /\ run'.made = run.made
        /\ run'.attempt = run.attempt /\ run'.pc = "put"
    BY <1>1, <1>7, GotoMove, GotoPc
  <2>2. run.pc = "acted"
    BY <1>7 DEF Judge, At
  <2> QED BY <1>1, <1>2, <1>3, <1>4, <2>1, <2>2, SameStageKept, StageMoveInductive
          DEF AttemptInStep, CheckpointInStep, EndInStep, SameStage, IInv, InStep
<1> QED BY <1>5, <1>6, <1>7 DEF ActRaises, Judge

LEMMA InvalidateInductive == IInv /\ Invalidate => IInv'
<1> SUFFICES ASSUME IInv, Invalidate PROVE IInv'
  OBVIOUS
<1> DEFINE s == run.stage
           D == Downstream[run.stage]
<1>1. s \in Stages /\ run \in Executions /\ RowsInv
  BY LocalFacts
<1>2. UNCHANGED <<item, file, reports, result, deployed, damages, faults>>
  BY DEF Invalidate, World
<1>3. Goto("begin") /\ run.pc = "invalidate"
  BY DEF Invalidate, At
<1>4. run' \in Executions /\ SameStage /\ run'.failed = run.failed /\ run'.pc = "begin"
  BY <1>1, <1>3, GotoMove, GotoPc
<1>5. RowsInv'
  BY <1>1, InvalidateRows
<1>6. \A t \in Stages :
        Latest'[t] = IF t \in D /\ Latest[t] # NoRow THEN Invalidated(Latest[t]) ELSE Latest[t]
  BY <1>1, InvalidateRows DEF LatestWithout
<1>7. \A t \in D : ~Done(t)'
  <2> SUFFICES ASSUME NEW t \in D PROVE Latest'[t].status # "DONE"
    BY DEF Done
  <2>1. t \in Stages
    BY <1>1 DEF Downstream, Stages
  <2>2. Latest[t] = NoRow \/ Latest[t] \in Rows
    BY <1>1, <2>1, LatestInv DEF LatestRows
  <2>3. \A x \in Rows : Invalidated(x).status = "PENDING"
    BY DEF Invalidated, Rows
  <2>4. NoRow.status = "NONE"
    BY DEF NoRow
  <2> QED BY <1>6, <2>1, <2>2, <2>3, <2>4
<1>8. \A t \in Stages \ D : Latest'[t] = Latest[t]
  BY <1>6
<1>9. \A t \in Stages : Done(t)' => Done(t) /\ Latest'[t] = Latest[t]
  BY <1>7, <1>8 DEF Done
<1>10. s \notin D /\ (s # "TRANSCODE" => "TRANSCODE" \notin D)
         /\ (s \in {"EMOTION", "QC"} => "ASR" \notin D)
  BY <1>1 DEF Downstream, Stages
<1>11. StagesBefore'
  BY <1>4, <1>8, <1>10 DEF StagesBefore, SameStage, Done, IInv, InStep, Stages
<1>12. AttemptInStep'
  <2>1. Downstream[run'.stage] = D
    BY <1>4 DEF SameStage
  <2> QED BY <1>4, <1>7, <2>1 DEF AttemptInStep
<1>13. CheckpointInStep'
  <2>1. Latest'[s] = Latest[s]
    BY <1>1, <1>8, <1>10
  <2>2. ~Fresh(s) /\ ~Spent(s)
    BY <1>3 DEF IInv, InStep, CheckpointInStep
  <2> QED BY <1>2, <1>4, <2>1, <2>2 DEF CheckpointInStep, Fresh, Spent, Done, ProducerVersion,
             SameStage
<1>14. EndInStep'
  BY <1>3, <1>4 DEF EndInStep, IInv, InStep
<1>15. FilesFollowRows' /\ RowsAgree'
  BY <1>2, <1>9 DEF FilesFollowRows, RowsAgree, IInv
<1>16. RestOK' /\ ResultMatchesRequest'
  BY <1>2, <1>4 DEF RestOK, ResultMatchesRequest, SameStage, IInv
<1> QED BY <1>5, <1>11, <1>12, <1>13, <1>14, <1>15, <1>16 DEF IInv, InStep

(* One stage's row becomes r, which is not DONE.                           *)
LEMMA RowOpens ==
  ASSUME IInv, RowsInv', NEW s \in Stages, NEW r, r.status # "DONE",
         Latest' = [Latest EXCEPT ![s] = r], UNCHANGED file
  PROVE  FilesFollowRows' /\ RowsAgree' /\ Latest'[s] = r
         /\ \A t \in Stages \ {s} : Latest'[t] = Latest[t]
<1>1. Latest'[s] = r /\ \A t \in Stages \ {s} : Latest'[t] = Latest[t]
  <2>1. Latest \in LatestRows
    BY LatestInv DEF IInv
  <2> QED BY <2>1 DEF LatestRows
<1>2. \A t \in Stages : Done(t)' => Done(t) /\ Latest'[t] = Latest[t]
  BY <1>1 DEF Done
<1> QED BY <1>1, <1>2 DEF IInv, FilesFollowRows, RowsAgree

LEMMA BeginInductive == IInv /\ Begin => IInv'
<1> SUFFICES ASSUME IInv, Begin PROVE IInv'
  OBVIOUS
<1> DEFINE s == run.stage
           n == Latest[s].attempts + 1
           r == [stage |-> s, status |-> "RUNNING", attempts |-> n,
                 sha |-> Nothing, version |-> 0, retryable |-> FALSE]
<1>1. s \in Stages /\ run \in Executions /\ RowsInv
  BY LocalFacts
<1>2. UNCHANGED <<item, file, reports, result, deployed, damages, faults>> /\ run.pc = "begin"
  BY DEF Begin, World, At
<1>3. RowsInv' /\ Latest' = [Latest EXCEPT ![s] = r]
        /\ run' = [run EXCEPT !.pc = "act", !.attempt = n]
  BY <1>1, BeginRows
<1>4. n \in Nat
  <2>1. Latest \in LatestRows
    BY <1>1, LatestInv
  <2>2. Latest[s] = NoRow \/ Latest[s] \in Rows
    BY <1>1, <2>1 DEF LatestRows
  <2> QED BY <2>2 DEF Rows, NoRow
<1>5. r.status = "RUNNING" /\ r.attempts = n
  OBVIOUS
<1> HIDE DEF n, r
<1>6. /\ run' \in Executions /\ SameStage
      /\ run'.pc = "act" /\ run'.attempt = n /\ run'.failed = run.failed
  BY <1>1, <1>3, <1>4, BeginMove
<1>7. FilesFollowRows' /\ RowsAgree' /\ Latest'[s] = r
        /\ \A t \in Stages \ {s} : Latest'[t] = Latest[t]
  BY <1>1, <1>2, <1>3, <1>5, RowOpens
<1>8. StagesBefore'
  BY <1>6, <1>7 DEF StagesBefore, SameStage, Done, IInv, InStep, Stages
<1>9. AttemptInStep'
  <2>1. \A d \in Downstream[s] : ~Done(d) /\ d \in Stages \ {s}
    BY <1>1, <1>2 DEF IInv, InStep, AttemptInStep, Downstream, Stages
  <2> QED BY <1>5, <1>6, <1>7, <2>1 DEF AttemptInStep, SameStage, Done
<1>10. CheckpointInStep' /\ EndInStep'
  BY <1>2, <1>6 DEF CheckpointInStep, EndInStep, IInv, InStep
<1>11. RestOK' /\ ResultMatchesRequest'
  BY <1>2, <1>6 DEF RestOK, ResultMatchesRequest, SameStage, IInv
<1> QED BY <1>3, <1>7, <1>8, <1>9, <1>10, <1>11 DEF IInv, InStep

LEMMA PutInductive == IInv /\ Put => IInv'
<1> SUFFICES ASSUME IInv, Put PROVE IInv'
  OBVIOUS
<1> DEFINE s == run.stage
<1>1. s \in Stages /\ run \in Executions /\ RowsInv
  BY LocalFacts
<1>2. /\ UNCHANGED <<item, rows, reports, result, deployed, damages, faults>> /\ run.pc = "put"
      /\ file' = [file EXCEPT ![s] = run.made] /\ Goto("record")
  BY DEF Put, At
<1>3. /\ run' \in Executions /\ SameStage /\ run'.pc = "record" /\ run'.failed = run.failed
      /\ run'.made = run.made /\ run'.attempt = run.attempt
  BY <1>1, <1>2, GotoMove, GotoPc
<1>4. RowsInv' /\ Latest' = Latest
  BY <1>1, <1>2, RowsKept
<1>5. run.made \in Artifacts[s] /\ run.made \in Hashes /\ ~Done(s)
  BY <1>1, <1>2, Made DEF IInv, InStep, AttemptInStep, Done
<1>6. RestOK'
  BY <1>1, <1>2, <1>3, <1>5 DEF IInv, RestOK, SameStage
<1>7. FilesFollowRows' /\ RowsAgree' /\ ResultMatchesRequest'
  BY <1>1, <1>2, <1>4, <1>5 DEF IInv, RestOK, FilesFollowRows, RowsAgree, ResultMatchesRequest,
     Done
<1>8. StagesBefore' /\ AttemptInStep' /\ CheckpointInStep' /\ EndInStep'
  <2>1. file'[s] = run.made
    BY <1>1, <1>2 DEF IInv, RestOK
  <2> QED BY <1>2, <1>3, <1>4, <2>1 DEF IInv, InStep, StagesBefore, AttemptInStep,
             CheckpointInStep, EndInStep, SameStage, Done
<1> QED BY <1>4, <1>6, <1>7, <1>8 DEF IInv, InStep

(* The row of the running stage becomes DONE with what the attempt made.   *)
LEMMA RowCompletes ==
  ASSUME IInv, SetDone, run.pc = "record",
         UNCHANGED <<item, file, reports, result, deployed, damages>>
  PROVE  /\ RowsInv' /\ FilesFollowRows' /\ RowsAgree'
         /\ Latest'[run.stage].status = "DONE" /\ Latest'[run.stage].sha = run.made
         /\ Latest'[run.stage].attempts = Latest[run.stage].attempts
         /\ run.made \in Artifacts[run.stage] /\ run.made \in Hashes
         /\ \A t \in Stages : t # run.stage => Latest'[t] = Latest[t]
<1> DEFINE s == run.stage
           r == [Latest[s] EXCEPT !.status = "DONE", !.sha = run.made,
                              !.version = ProducerVersion(s)]
<1>1. s \in Stages /\ run \in Executions /\ RowsInv
  BY LocalFacts
<1>2. /\ run.made \in Artifacts[s] /\ run.made \in Hashes
      /\ s \in {"ASR", "EMOTION"} => run.made.from = Latest["TRANSCODE"].sha
      /\ s = "QC" => run.made.from = run.turns
      /\ \A d \in Downstream[s] : ~Done(d)
  BY <1>1, Made DEF IInv, InStep, AttemptInStep
<1>3. RowsInv' /\ Latest[s].status = "RUNNING" /\ Latest' = [Latest EXCEPT ![s] = r]
  BY <1>1, <1>2, SetDoneRows
<1>4. Latest \in LatestRows
  BY <1>1, LatestInv
<1>5. Latest[s] \in Rows
  BY <1>1, <1>3, <1>4 DEF LatestRows, NoRow
<1>6. r.status = "DONE" /\ r.sha = run.made /\ r.attempts = Latest[s].attempts
  BY <1>5 DEF Rows
<1> HIDE DEF r
<1>7. Latest'[s] = r /\ \A t \in Stages \ {s} : Latest'[t] = Latest[t]
  BY <1>1, <1>3, <1>4 DEF LatestRows
<1>8. FilesFollowRows'
  <2>1. file[s] \in {Nothing, run.made}
    BY DEF IInv, InStep, AttemptInStep
  <2> QED BY <1>1, <1>6, <1>7, <2>1 DEF IInv, FilesFollowRows, Done
<1>9. RowsAgree'
  <2> SUFFICES ASSUME NEW u \in Stages, NEW d \in Stages, <<u, d>> \in Edges, Done(u)', Done(d)'
               PROVE  Latest'[d].sha.from = Latest'[u].sha
    BY DEF RowsAgree
  <2>1. \/ u = "TRANSCODE" /\ d \in {"ASR", "EMOTION"}
        \/ u = "ASR" /\ d = "QC"
    BY DEF Edges
  <2>2. CASE u = s
    <3>1. d \in Downstream[s] /\ d # s
      BY <2>1, <2>2 DEF Downstream
    <3> QED BY <1>2, <1>7, <3>1 DEF Done
  <2>3. CASE d = s
    <3>1. u # s
      BY <2>1, <2>3
    <3>2. Latest[u].sha = run.made.from
      <4>1. CASE s = "QC"
        BY <1>2, <2>1, <2>3, <4>1 DEF IInv, InStep, StagesBefore
      <4>2. CASE s # "QC"
        BY <1>2, <2>1, <2>3, <4>2
      <4> QED BY <4>1, <4>2
    <3> QED BY <1>6, <1>7, <2>3, <3>1, <3>2
  <2>4. CASE u # s /\ d # s
    BY <1>7, <2>4 DEF IInv, RowsAgree, Done
  <2> QED BY <2>2, <2>3, <2>4
<1> QED BY <1>2, <1>3, <1>6, <1>7, <1>8, <1>9

LEMMA RecordInductive == IInv /\ Record => IInv'
<1> SUFFICES ASSUME IInv, Record PROVE IInv'
  OBVIOUS
<1>1. run.stage \in Stages /\ run \in Executions /\ RowsInv
  BY LocalFacts
<1>2. /\ UNCHANGED <<item, file, reports, result, deployed, damages, faults>>
      /\ run.pc = "record" /\ SetDone /\ Finished(run.made) /\ ~run.failed
  BY DEF Record, World, At, IInv, InStep, EndInStep
<1>3. /\ RowsInv' /\ FilesFollowRows' /\ RowsAgree'
      /\ Latest'[run.stage].status = "DONE" /\ Latest'[run.stage].sha = run.made
      /\ run.made \in Artifacts[run.stage] /\ run.made \in Hashes
      /\ \A t \in Stages : t # run.stage => Latest'[t] = Latest[t]
  BY <1>2, RowCompletes
<1>4. /\ Done("ASR") => Latest["ASR"].sha \in Transcripts
      /\ StagesBefore /\ (run.stage = "QC" => run.turns \in Transcripts)
  BY LocalFacts, Made DEF Stages, IInv, RestOK, InStep
<1>5. run' \in Executions /\ InStep' /\ (run'.stage = "QC" => run'.turns \in Transcripts)
  BY <1>1, <1>2, <1>3, <1>4, FinishedInStep
<1>6. RestOK' /\ ResultMatchesRequest'
  BY <1>2, <1>5 DEF IInv, RestOK, ResultMatchesRequest
<1> QED BY <1>3, <1>5, <1>6 DEF IInv

LEMMA RecordRaisesInductive == IInv /\ RecordRaises => IInv'
<1> SUFFICES ASSUME IInv, RecordRaises PROVE IInv'
  OBVIOUS
<1> DEFINE s == run.stage
<1>1. s \in Stages /\ run \in Executions /\ RowsInv
  BY LocalFacts
<1>2. /\ UNCHANGED <<item, file, reports, result, deployed, damages>> /\ faults' \in Nat
      /\ run.pc \in {"put", "record"} /\ Fail(FALSE) /\ ~run.failed
      /\ UNCHANGED rows \/ (SetDone /\ run.pc = "record")
  <2>1. /\ UNCHANGED World /\ run.pc \in {"put", "record"} /\ Fail(FALSE)
        /\ UNCHANGED rows \/ (SetDone /\ run.pc = "record")
    BY DEF RecordRaises, At
  <2>2. faults' \in Nat
    BY DEF RecordRaises, Fault, IInv, RestOK
  <2>3. ~run.failed
    BY <2>1 DEF IInv, InStep, EndInStep
  <2> QED BY <2>1, <2>2, <2>3 DEF World
<1>3. /\ run' \in Executions /\ SameStage
      /\ run'.pc = "fail" /\ run'.attempt = run.attempt /\ run'.failed = run.failed
  BY <1>1, <1>2, FailMove
<1>4. /\ run.attempt = Latest[s].attempts
      /\ \A d \in Downstream[s] : ~Done(d) /\ d \in Stages /\ d # s
  BY <1>1, <1>2 DEF IInv, InStep, AttemptInStep, Downstream, Stages
<1>5. CASE UNCHANGED rows
  <2>1. UNCHANGED MoveVars /\ Latest' = Latest
    BY <1>1, <1>2, <1>5, RowsKept DEF MoveVars
  <2>2. AttemptInStep' /\ CheckpointInStep' /\ EndInStep'
    BY <1>2, <1>3, <1>4, <2>1 DEF AttemptInStep, CheckpointInStep, EndInStep, SameStage, Done
  <2> QED BY <1>2, <1>3, <2>1, <2>2, StageMoveInductive DEF IInv, RestOK
<1>6. CASE SetDone /\ run.pc = "record"
  <2>1. /\ RowsInv' /\ FilesFollowRows' /\ RowsAgree'
        /\ Latest'[s].attempts = Latest[s].attempts
        /\ \A t \in Stages : t # s => Latest'[t] = Latest[t]
    BY <1>2, <1>6, RowCompletes
  <2>2. StagesBefore'
    BY <1>3, <2>1 DEF StagesBefore, SameStage, Done, IInv, InStep, Stages
  <2>3. AttemptInStep' /\ CheckpointInStep' /\ EndInStep'
    BY <1>2, <1>3, <1>4, <2>1 DEF AttemptInStep, CheckpointInStep, EndInStep, SameStage, Done
  <2>4. RestOK' /\ ResultMatchesRequest'
    BY <1>2, <1>3 DEF IInv, RestOK, ResultMatchesRequest, SameStage
  <2> QED BY <2>1, <2>2, <2>3, <2>4 DEF IInv, InStep
<1> QED BY <1>2, <1>5, <1>6

LEMMA RecordFailureInductive == IInv /\ RecordFailure => IInv'
<1> SUFFICES ASSUME IInv, RecordFailure PROVE IInv'
  OBVIOUS
<1> DEFINE s == run.stage
<1>1. s \in Stages /\ run \in Executions /\ RowsInv
  BY LocalFacts
<1>2. /\ UNCHANGED <<item, file, reports, result, deployed, damages, faults>>
      /\ run.pc = "fail" /\ ~run.failed
      /\ run.attempt = Latest[s].attempts /\ \A d \in Downstream[s] : ~Done(d)
  BY DEF RecordFailure, World, At, IInv, InStep, EndInStep, AttemptInStep
<1>3. CASE ~StatusIs(s, "RUNNING")
  <2>1. Goto("interrupt") /\ UNCHANGED rows
    BY <1>3 DEF RecordFailure
  <2>2. run' \in Executions /\ SameStage /\ run'.failed = run.failed /\ run'.pc = "interrupt"
    BY <1>1, <2>1, GotoMove, GotoPc
  <2>3. AttemptInStep' /\ CheckpointInStep' /\ EndInStep'
    BY <1>2, <2>2 DEF AttemptInStep, CheckpointInStep, EndInStep
  <2> QED BY <1>2, <2>1, <2>2, <2>3, StageMoveInductive DEF IInv, RestOK, MoveVars
<1>4. CASE StatusIs(s, "RUNNING")
  <2> DEFINE r == [Latest[s] EXCEPT !.status = "FAILED", !.retryable = run.retry]
  <2>1. RowsInv' /\ Latest[s].status = "RUNNING" /\ Latest' = [Latest EXCEPT ![s] = r]
    BY <1>1, <1>4, FailedRows
  <2>2. Latest[s] \in Rows
    <3>1. Latest \in LatestRows
      BY <1>1, LatestInv
    <3> QED BY <1>1, <2>1, <3>1 DEF LatestRows, NoRow
  <2>3. r.status = "FAILED" /\ r.retryable = run.retry /\ r.attempts = Latest[s].attempts
    BY <2>2 DEF Rows
  <2> HIDE DEF r
  <2>4. FilesFollowRows' /\ RowsAgree' /\ Latest'[s] = r
          /\ \A t \in Stages \ {s} : Latest'[t] = Latest[t]
    BY <1>1, <1>2, <2>1, <2>3, RowOpens
  <2>5. CASE run.retry /\ run.attempt < MaxAttempts
    <3>1. run' = [run EXCEPT !.pc = "begin", !.retry = FALSE]
      BY <1>4, <2>5 DEF RecordFailure
    <3>2. /\ run' \in Executions /\ SameStage
          /\ run'.pc = "begin" /\ run'.failed = run.failed
      BY <1>1, <3>1, RetryMove
    <3>3. StagesBefore'
      BY <2>4, <3>2 DEF StagesBefore, SameStage, Done, IInv, InStep, Stages
    <3>4. AttemptInStep'
      <4>1. Downstream[s] \subseteq Stages \ {s}
        BY <1>1 DEF Downstream, Stages
      <4> QED BY <1>2, <2>4, <3>2, <4>1 DEF AttemptInStep, SameStage, Done
    <3>5. CheckpointInStep'
      <4>1. MaxAttempts \in Nat /\ run.attempt \in Nat
        BY <1>1, StageAssumption DEF Executions
      <4>2. /\ Latest'[s].status = "FAILED" /\ Latest'[s].retryable
            /\ Latest'[s].attempts < MaxAttempts
        BY <1>2, <2>3, <2>4, <2>5
      <4>3. Latest[s].attempts \in Nat
        BY <1>2, <4>1
      <4>4. ~(Latest'[s].attempts >= MaxAttempts)
        BY <2>3, <2>4, <4>1, <4>2, <4>3
      <4> QED BY <3>2, <4>2, <4>4 DEF CheckpointInStep, SameStage, Fresh, Spent, Done
    <3>6. EndInStep' /\ RestOK' /\ ResultMatchesRequest'
      BY <1>2, <3>2 DEF EndInStep, RestOK, ResultMatchesRequest, SameStage, IInv
    <3> QED BY <2>1, <2>4, <3>3, <3>4, <3>5, <3>6 DEF IInv, InStep
  <2>6. CASE ~(run.retry /\ run.attempt < MaxAttempts)
    <3>1. GiveUp
      BY <1>4, <2>6 DEF RecordFailure
    <3>2. /\ run' \in Executions /\ SameStage
          /\ run'.pc = "final" /\ run'.failed
      BY <1>1, <3>1, GiveUpMove
    <3>3. StagesBefore'
      BY <2>4, <3>2 DEF StagesBefore, SameStage, Done, IInv, InStep, Stages
    <3>4. AttemptInStep' /\ CheckpointInStep'
      BY <3>2 DEF AttemptInStep, CheckpointInStep
    <3>5. EndInStep'
      <4>1. MaxAttempts \in Nat /\ run.attempt \in Nat
        BY <1>1, StageAssumption DEF Executions
      <4> QED BY <1>2, <2>3, <2>4, <2>6, <3>2, <4>1 DEF EndInStep, SameStage, Spent
    <3>6. RestOK' /\ ResultMatchesRequest'
      BY <1>2, <3>2 DEF RestOK, ResultMatchesRequest, SameStage, IInv
    <3> QED BY <2>1, <2>4, <3>3, <3>4, <3>5, <3>6 DEF IInv, InStep
  <2> QED BY <2>5, <2>6
<1> QED BY <1>3, <1>4

(* The Worker's own steps and those of the environment.                    *)
LEMMA IdleInStep ==
  ASSUME run'.stage = "TRANSCODE", run'.pc \in {"off", "enter"}, ~run'.failed
  PROVE  InStep'
BY DEF InStep, StagesBefore, AttemptInStep, CheckpointInStep, EndInStep

LEMMA WorkerInductive == IInv /\ (Claim \/ Finalize \/ Interrupt \/ Crash) => IInv'
<1> SUFFICES ASSUME IInv, Claim \/ Finalize \/ Interrupt \/ Crash PROVE IInv'
  OBVIOUS
<1>1. UNCHANGED <<rows, file, reports, deployed, damages>> /\ faults' \in Nat
  BY LocalFacts DEF Claim, Finalize, Interrupt, Crash, Fault, World
<1>2. run' \in Executions /\ run'.stage = "TRANSCODE" /\ run'.pc \in {"off", "enter"}
        /\ ~run'.failed
  <2>1. run' = Idle \/ run' = [Idle EXCEPT !.pc = "enter", !.version = deployed]
    BY DEF Claim, Finalize, Interrupt, Crash
  <2> QED BY <2>1, IdleMove, LocalFacts
<1>3. InStep'
  BY <1>2, IdleInStep
<1>4. RowsInv' /\ Latest' = Latest
  BY <1>1, RowsKept DEF IInv
<1>5. FilesFollowRows' /\ RowsAgree'
  BY <1>1, <1>4 DEF IInv, FilesFollowRows, RowsAgree, Done
<1>6. /\ item' \in {"PENDING", "RUNNING", "INTERRUPTED", "FINAL"}
      /\ result' \in FileResults \cup {Nothing}
      /\ item' = "FINAL" <=> result' # Nothing
      /\ ResultMatchesRequest'
  <2>1. CASE Finalize
    <3> DEFINE given == [status |-> "FAILED_FINAL", turns |-> Nothing, analysis |-> Nothing]
               ended == [status |-> run.made.n, turns |-> run.turns, analysis |-> run.made]
    <3>1. item' = "FINAL" /\ result' = IF run.failed THEN given ELSE ended
      BY <2>1 DEF Finalize
    <3>2. given \in FileResults
      BY DEF FileResults
    <3>3. ~run.failed => /\ run.made \in Analyses /\ run.turns \in Transcripts
                         /\ run.made.from = run.turns
      <4> SUFFICES ASSUME ~run.failed
                   PROVE  run.made \in Analyses /\ run.turns \in Transcripts
                     /\ run.made.from = run.turns
        OBVIOUS
      <4>1. run.stage = "QC" /\ Done("QC") /\ run.made = Latest["QC"].sha
        BY <2>1 DEF Finalize, At, IInv, InStep, EndInStep
      <4>2. Done("ASR") /\ run.turns = Latest["ASR"].sha
        BY <4>1 DEF IInv, InStep, StagesBefore
      <4>3. run.made.from = run.turns
        BY <4>1, <4>2 DEF IInv, RowsAgree, Edges, Stages
      <4> QED BY <4>1, <4>2, <4>3, LocalFacts, Made DEF Stages
    <3>4. \A a \in Analyses : a.n \in Verdicts
      BY DEF Analyses
    <3>5. ~run.failed => ended \in FileResults
      BY <3>3, <3>4 DEF FileResults
    <3>6. result' \in FileResults /\ result' # Nothing
      BY <3>1, <3>2, <3>5, NothingAssumption
    <3>7. run.failed => result'.status = "FAILED_FINAL"
      BY <3>1
    <3>8. ~run.failed => result'.analysis.from = result'.turns
      BY <3>1, <3>3
    <3> QED BY <3>1, <3>6, <3>7, <3>8 DEF ResultMatchesRequest
  <2>2. CASE Claim \/ Interrupt \/ Crash
    <3>1. UNCHANGED result /\ item' \in {"RUNNING", "INTERRUPTED", item}
          /\ (item' # item => item # "FINAL")
      BY <2>2 DEF Claim, Interrupt, Crash, World
    <3> QED BY <3>1 DEF IInv, RestOK, ResultMatchesRequest
  <2> QED BY <2>1, <2>2
<1>7. RestOK'
  BY <1>1, <1>2, <1>6 DEF IInv, RestOK
<1> QED BY <1>3, <1>4, <1>5, <1>6, <1>7 DEF IInv

LEMMA EnvironmentInductive ==
  IInv /\ (CallRaises \/ DeadlinePasses \/ Expire \/ Upgrade) => IInv'
<1> SUFFICES ASSUME IInv, CallRaises \/ DeadlinePasses \/ Expire \/ Upgrade PROVE IInv'
  OBVIOUS
<1> DEFINE s == run.stage
<1>1. s \in Stages /\ run \in Executions /\ RowsInv
  BY LocalFacts
<1>2. CASE CallRaises
  <2>1. UNCHANGED MoveVars /\ reports' \in Nat /\ faults' \in Nat /\ deployed' \in Nat
          /\ Goto("interrupt")
    BY <1>2, LocalFacts DEF CallRaises, Fault, World, MoveVars
  <2>2. run' \in Executions /\ SameStage /\ run'.failed = run.failed /\ run'.pc = "interrupt"
    BY <1>1, <2>1, GotoMove, GotoPc
  <2> QED BY <2>1, <2>2, StageMoveInductive DEF AttemptInStep, CheckpointInStep, EndInStep
<1>3. CASE DeadlinePasses
  <2>1. /\ UNCHANGED MoveVars /\ reports' \in Nat /\ faults' \in Nat /\ deployed' \in Nat
        /\ Latest' = Latest /\ UNCHANGED file
        /\ run' = [run EXCEPT !.late = TRUE] /\ run.pc \in {"enter", "act", "acted"}
    BY <1>3, LocalFacts, RowsKept DEF DeadlinePasses, Local, MoveVars
  <2>2. /\ run' \in Executions /\ SameStage
        /\ run'.pc = run.pc /\ run'.failed = run.failed /\ run'.sha = run.sha
        /\ run'.made = run.made /\ run'.attempt = run.attempt
    BY <1>1, <2>1, LateMove
  <2>3. AttemptInStep' /\ CheckpointInStep' /\ EndInStep'
    BY <2>1, <2>2 DEF IInv, InStep, AttemptInStep, CheckpointInStep, EndInStep, SameStage, Done
  <2> QED BY <2>1, <2>2, <2>3, StageMoveInductive
<1>4. CASE Expire
  <2>1. UNCHANGED <<rows, file, reports, result, run, deployed, faults, damages>>
        /\ item = "RUNNING" /\ item' = "INTERRUPTED"
    BY <1>4 DEF Expire
  <2>2. RowsInv' /\ Latest' = Latest
    BY <1>1, <2>1, RowsKept
  <2>3. InStep'
    BY <2>1, <2>2 DEF IInv, InStep, StagesBefore, AttemptInStep, CheckpointInStep, EndInStep,
                      Done, Fresh, Spent, ProducerVersion
  <2> QED BY <2>1, <2>2, <2>3 DEF IInv, RestOK, FilesFollowRows, RowsAgree,
             ResultMatchesRequest, Done
<1>5. CASE Upgrade
  <2>1. UNCHANGED <<item, rows, file, reports, result, run, faults, damages>> /\ deployed' \in Nat
    BY <1>5, LocalFacts DEF Upgrade
  <2>2. RowsInv' /\ Latest' = Latest
    BY <1>1, <2>1, RowsKept
  <2>3. InStep'
    BY <2>1, <2>2 DEF IInv, InStep, StagesBefore, AttemptInStep, CheckpointInStep, EndInStep,
                      Done, Fresh, Spent, ProducerVersion
  <2> QED BY <2>1, <2>2, <2>3 DEF IInv, RestOK, FilesFollowRows, RowsAgree,
             ResultMatchesRequest, Done
<1> QED BY <1>2, <1>3, <1>4, <1>5

(* A lost artifact makes no checkpoint valid: no DONE row has none.        *)
LEMMA DamageInductive == ASSUME IInv, NEW t \in Stages, Damage(t) PROVE IInv'
<1>1. run.stage \in Stages /\ run \in Executions /\ RowsInv
  BY LocalFacts
<1>2. /\ UNCHANGED <<item, rows, reports, result, run, deployed, faults>> /\ damages' \in Nat
      /\ file' = [file EXCEPT ![t] = Nothing]
  BY DEF Damage, IInv, RestOK
<1>3. RowsInv' /\ Latest' = Latest
  BY <1>1, <1>2, RowsKept
<1>4. file' \in [Stages -> Hashes]
        /\ \A s \in Stages : file'[s] = IF s = t THEN Nothing ELSE file[s]
  BY <1>2 DEF IInv, RestOK, Hashes
<1>5. \A s \in Stages : Fresh(s)' => Fresh(s)
  BY <1>2, <1>3, <1>4, LocalFacts DEF Fresh, Done, ProducerVersion
<1>6. StagesBefore' /\ AttemptInStep' /\ CheckpointInStep' /\ EndInStep'
  BY <1>1, <1>2, <1>3, <1>4, <1>5
     DEF IInv, InStep, StagesBefore, AttemptInStep, CheckpointInStep, EndInStep, Done, Spent
<1>7. RestOK' /\ FilesFollowRows' /\ RowsAgree' /\ ResultMatchesRequest'
  BY <1>2, <1>3, <1>4 DEF IInv, RestOK, FilesFollowRows, RowsAgree, ResultMatchesRequest, Done
<1> QED BY <1>3, <1>6, <1>7 DEF IInv, InStep

LEMMA Inductive == IInv /\ [Next]_vars => IInv'
<1> SUFFICES ASSUME IInv, [Next]_vars PROVE IInv'
  OBVIOUS
<1>1. CASE UNCHANGED vars
  <2>1. RowsInv' /\ Latest' = Latest
    BY <1>1, RowsKept DEF vars, IInv
  <2>2. InStep'
    BY <1>1, <2>1 DEF vars, IInv, InStep, StagesBefore, AttemptInStep, CheckpointInStep,
       EndInStep,
                      Done, Fresh, Spent, ProducerVersion
  <2> QED BY <1>1, <2>1, <2>2
          DEF vars, IInv, RestOK, FilesFollowRows, RowsAgree, ResultMatchesRequest, Done
<1>2. CASE Step
  BY <1>2, WorkerInductive, EnterInductive, VerifyInductive, CheckInductive, InvalidateInductive,
     BeginInductive, ActInductive, PutInductive, RecordInductive, RecordFailureInductive DEF Step
<1> QED BY <1>1, <1>2, RecordRaisesInductive, EnvironmentInductive, WorkerInductive,
           DamageInductive DEF Next

LEMMA Initially == Init => IInv
<1> SUFFICES ASSUME Init PROVE IInv
  OBVIOUS
<1>1. /\ rows = <<>> /\ run = Idle /\ item = "PENDING" /\ result = Nothing
      /\ file = [s \in Stages |-> Nothing]
      /\ reports = 0 /\ deployed = 0 /\ faults = 0 /\ damages = 0
  BY DEF Init
<1>2. RowsInv
  BY <1>1 DEF RowsInv, RowsOK
<1>3. run \in Executions /\ run.stage = "TRANSCODE" /\ run.pc = "off" /\ ~run.failed
  BY <1>1 DEF Executions, Idle, Stages, Hashes
<1>4. \A s \in Stages : ~Done(s)
  <2> SUFFICES ASSUME NEW s \in Stages PROVE ~Done(s)
    OBVIOUS
  <2>1. rows \in Seq(Rows) /\ Len(rows) = 0
    BY <1>1, <1>2 DEF RowsInv
  <2>2. LastIn(rows, s) \notin 1..Len(rows)
    BY <2>1
  <2>3. LastIn(rows, s) = 0
    BY <2>1, <2>2, LastInIs
  <2> QED BY <2>3 DEF Done, Latest, LatestIn, NoRow
<1>5. InStep
  BY <1>3 DEF InStep, StagesBefore, AttemptInStep, CheckpointInStep, EndInStep
<1>6. RestOK
  BY <1>1, <1>3 DEF RestOK, Hashes
<1> QED BY <1>1, <1>2, <1>4, <1>5, <1>6 DEF IInv, FilesFollowRows, RowsAgree, ResultMatchesRequest

LEMMA Strengthened == Spec => []IInv
BY Initially, Inductive, PTL DEF Spec

(***************************************************************************)
(* The theorems.                                                           *)
(***************************************************************************)

(* Rows, artifacts and results keep their types (stage_executions, the     *)
(* artifact store and the file's result): exactly a DONE row has a hash,   *)
(* and it is one of its own stage.                                         *)
THEOREM TypeCorrect == Spec => []TypeOK
<1>1. IInv => TypeOK
  BY TypeParts DEF IInv
<1> QED BY <1>1, Strengthened, PTL

(* execute_stage, _valid_checkpoint and invalidate_stages: two checkpoints *)
(* that are both valid belong together, for any number of crashes, damaged *)
(* artifacts, upgrades and attempts.                                       *)
THEOREM ValidCheckpointsAgree == Spec => []CheckpointsAgree
<1>1. IInv => CheckpointsAgree
  <2> SUFFICES ASSUME IInv, NEW u \in Stages, NEW d \in Stages,
                      <<u, d>> \in Edges, Usable(u), Usable(d)
               PROVE  rows[Last(d)].sha.from = rows[Last(u)].sha
    BY DEF CheckpointsAgree
  <2>1. rows \in Seq(Rows)
    BY DEF IInv, RowsInv
  <2>2. \A s \in Stages : Usable(s) => Done(s) /\ rows[Last(s)] = Latest[s]
    BY <2>1, ReadLatest DEF Usable, Done, RowStatus
  <2> QED BY <2>2 DEF IInv, RowsAgree
<1> QED BY <1>1, Strengthened, PTL

(* process_file and the finalisation: the stored analysis is the one of    *)
(* the stored request, whichever of the two came from a checkpoint.        *)
THEOREM ResultsMatchRequests == Spec => []ResultMatchesRequest
<1>1. IInv => ResultMatchesRequest
  BY DEF IInv
<1> QED BY <1>1, Strengthened, PTL

(* execute_stage raises BatchStageFailure only past the deadline, or when  *)
(* the latest row shows a failure that must not be tried again.            *)
THEOREM FailuresHaveCause == Spec => []GivenUpForCause
<1>1. IInv => GivenUpForCause
  <2> SUFFICES ASSUME IInv, At("final"), run.failed, ~run.late PROVE Exhausted(run.stage)
    BY DEF GivenUpForCause
  <2>1. Spent(run.stage)
    BY DEF At, IInv, InStep, EndInStep
  <2> QED BY <2>1, LocalFacts DEF Spent, Exhausted, RowStatus
<1> QED BY <1>1, Strengthened, PTL

(* begin_stage never repeats a stage whose checkpoint is valid for the     *)
(* running version, nor one that has finally failed, however the execution *)
(* came to it.                                                             *)
THEOREM AttemptsAreNeeded == Spec => NoNeedlessAttempt
<1>1. IInv /\ [Next]_vars =>
        [Begin => LET s == run.stage IN
                  /\ ~Exhausted(s)
                  /\ ~(Usable(s) /\ rows[Last(s)].version = ProducerVersion(s))]_vars
  <2> SUFFICES ASSUME IInv, Begin
               PROVE  LET s == run.stage IN
                      /\ ~Exhausted(s)
                      /\ ~(Usable(s) /\ rows[Last(s)].version = ProducerVersion(s))
    OBVIOUS
  <2>1. ~Fresh(run.stage) /\ ~Spent(run.stage)
    BY DEF Begin, At, IInv, InStep, CheckpointInStep
  <2> QED BY <2>1, LocalFacts DEF Fresh, Spent, Exhausted, Usable, Done, RowStatus
<1> QED BY <1>1, Strengthened, PTL DEF Spec, NoNeedlessAttempt
=============================================================================
