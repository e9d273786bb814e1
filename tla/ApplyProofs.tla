---------------------------- MODULE ApplyProofs ----------------------------
(***************************************************************************)
(* The service gets every entry once, in order, and only committed ones,   *)
(* for logs of any length and any number of restarts, as long as no        *)
(* snapshot arrives while the apply loop is in a round or behind what was  *)
(* applied (Disturbing = {}).                                              *)
(***************************************************************************)
EXTENDS Apply, TLAPS

\* The larger of two, as in the updates of commitIndex and lastApplied.
LEMMA MaxPair ==
    ASSUME NEW a \in Nat, NEW b \in Nat
    PROVE  Max({a, b}) = IF a >= b THEN a ELSE b
    BY DEF Max

\* The smaller of two.
LEMMA MinPair ==
    ASSUME NEW a \in Nat, NEW b \in Nat
    PROVE  Min({a, b}) = IF a <= b THEN a ELSE b
    BY DEF Min

\* The entries first..last are a sequence; it is empty if last is smaller.
LEMMA EntriesType ==
    ASSUME NEW first \in Nat, NEW last \in Nat
    PROVE  /\ Entries(first, last) \in Seq(Nat)
           /\ Len(Entries(first, last)) = IF last >= first THEN last - first + 1 ELSE 0
           /\ \A k \in DOMAIN Entries(first, last) : Entries(first, last)[k] = first + k - 1
<1> DEFINE n == IF last >= first THEN last - first + 1 ELSE 0
<1>1. n \in Nat /\ 1..(last - first + 1) = 1..n
  OBVIOUS
<1>2. Entries(first, last) = [k \in 1..n |-> first + k - 1]
  BY <1>1 DEF Entries
<1>3. \A k \in 1..n : first + k - 1 \in Nat
  OBVIOUS
<1> HIDE DEF n
<1>4. Entries(first, last) \in [1..n -> Nat]
  BY <1>2, <1>3
<1>5. Entries(first, last) \in Seq(Nat)
  BY <1>1, <1>4
<1>6. Len(Entries(first, last)) = n
  BY <1>1, <1>2, <1>4, <1>5
<1>7. QED
  BY <1>2, <1>5, <1>6 DEF n

LEMMA EntriesFrom1 ==
    ASSUME NEW n \in Nat
    PROVE  /\ Entries(1, n) \in Seq(Nat)
           /\ Len(Entries(1, n)) = n
           /\ \A k \in 1..n : Entries(1, n)[k] = k
<1>1. Len(Entries(1, n)) = IF n >= 1 THEN n - 1 + 1 ELSE 0
  BY EntriesType, 1 \in Nat
<1>2. Entries(1, n) \in Seq(Nat)
  BY EntriesType, 1 \in Nat
<1>3. QED
  BY <1>1, <1>2 DEF Entries

\* What the service is built from grows by the next entry.
LEMMA EntriesNext ==
    ASSUME NEW n \in Nat
    PROVE  Append(Entries(1, n), n + 1) = Entries(1, n + 1)
<1>1. n + 1 \in Nat
  OBVIOUS
<1>2. QED
  BY SMTT(60), <1>1, EntriesFrom1, Append(Entries(1, n), n + 1) \in Seq(Nat)

LEMMA InitInv == Init => ApplyInv
<1> SUFFICES ASSUME Init PROVE ApplyInv
  OBVIOUS
<1>1. Entries(1, 0) = <<>>
  BY EntriesFrom1
<1>2. <<>> \in Seq(Nat)
  OBVIOUS
<1>3. ticker \in [pc : {"loop"}, entries : Seq(Nat), sent : {0}, bytes : Seq(Nat), index : Nat]
  BY <1>2 DEF Init, Loop
<1>4. service \in [state : Seq(Nat), lastApplied : Nat, busy : BOOLEAN]
  BY <1>2 DEF Init
<1>5. TypeOK
  BY Zenon, <1>2, <1>3, <1>4 DEF Init, TypeOK
<1>6. Pending
  BY <1>3 DEF Init, Pending, Round
<1>7. Progress
  BY <1>1 DEF Init, Progress, ServiceAt, Loop
<1>8. SnapshotInv
  BY <1>1, MaxPair DEF Init, SnapshotInv
<1>9. QED
  BY <1>5, <1>6, <1>7, <1>8 DEF ApplyInv

-----------------------------------------------------------------------------
(* Every step keeps the invariant. *)

LEMMA Types ==
    ASSUME ApplyInv
    PROVE  /\ lastApplied \in Nat /\ commitIndex \in Nat
           /\ log.snapLastIdx \in Nat /\ log.last \in Nat
           /\ ticker.sent \in Nat /\ Len(ticker.entries) \in Nat
           /\ service.lastApplied \in Nat
BY DEF ApplyInv, TypeOK

LEMMA ServiceLen ==
    ASSUME NEW n \in Nat, ServiceAt(n)
    PROVE  service.state \in Seq(Nat) /\ Len(service.state) = n
BY EntriesFrom1 DEF ServiceAt

LEMMA WaitStep ==
    ASSUME ApplyInv, Wait
    PROVE  ApplyInv'
<1>1. TypeOK'
  BY Zenon DEF ApplyInv, Wait, rf, TypeOK, Round
<1>2. Pending'
  BY DEF ApplyInv, Wait, rf, TypeOK, Pending, Round
<1>3. Progress'
  BY DEF ApplyInv, Wait, rf, TypeOK, Pending, Progress, ServiceAt, Round
<1>4. SnapshotInv'
  BY DEF ApplyInv, Wait, rf, TypeOK, Pending, Progress, ServiceAt, SnapshotInv, Round
<1>5. QED
  BY <1>1, <1>2, <1>3, <1>4 DEF ApplyInv

LEMMA CollectStep ==
    ASSUME ApplyInv, collect
    PROVE  ApplyInv'
<1> DEFINE end == Min({commitIndex, log.last})
<1>a. lastApplied' = lastApplied
  <2>1. ServiceAt(lastApplied) /\ log.snapLastIdx <= Len(service.state)
    BY DEF ApplyInv, Progress, SnapshotInv, collect, Take
  <2>2. log.snapLastIdx <= lastApplied
    BY <2>1, Types, ServiceLen
  <2>3. Max({lastApplied, log.snapLastIdx}) = lastApplied
    BY <2>2, Types, MaxPair
  <2>4. QED
    BY <2>3 DEF collect, Take
<1>b. end \in Nat /\ end <= commitIndex
  BY Types, MinPair
<1>c. /\ ticker'.entries \in Seq(Nat)
      /\ \A k \in DOMAIN ticker'.entries : ticker'.entries[k] = lastApplied + k
      /\ ticker'.entries # <<>> => lastApplied + Len(ticker'.entries) <= commitIndex
  <2>1. ticker'.entries = Entries(lastApplied + 1, end)
    BY <1>a DEF ApplyInv, TypeOK, collect, Take
  <2>2. lastApplied + 1 \in Nat
    BY DEF ApplyInv, TypeOK
  <2>3. /\ Entries(lastApplied + 1, end) \in Seq(Nat)
        /\ \A k \in DOMAIN Entries(lastApplied + 1, end) :
              Entries(lastApplied + 1, end)[k] = (lastApplied + 1) + k - 1
    BY Zenon, <1>b, <2>2, EntriesType
  <2>4. Len(Entries(lastApplied + 1, end))
            = IF end >= lastApplied + 1 THEN end - (lastApplied + 1) + 1 ELSE 0
    BY Zenon, <1>b, <2>2, EntriesType
  <2> HIDE DEF end
  <2>5. \A k \in DOMAIN ticker'.entries : ticker'.entries[k] = lastApplied + k
    <3>1. TAKE k \in DOMAIN ticker'.entries
    <3>2. PICK e : e = Entries(lastApplied + 1, end)
      OBVIOUS
    <3>3. e \in Seq(Nat) /\ k \in DOMAIN e /\ e[k] = (lastApplied + 1) + k - 1
      BY Zenon, <2>1, <2>3, <3>2
    <3>4. k \in Nat
      BY <3>3
    <3>5. lastApplied \in Nat
      BY Zenon DEF ApplyInv, TypeOK
    <3>6. (lastApplied + 1) + k - 1 = lastApplied + k
      BY <3>4, <3>5
    <3>7. QED
      BY Zenon, <2>1, <3>2, <3>3, <3>6
  <2>6. ticker'.entries # <<>> => Len(ticker'.entries) # 0
    BY <2>1, <2>3
  <2>7. lastApplied \in Nat /\ commitIndex \in Nat
    BY DEF ApplyInv, TypeOK
  <2>8. QED
    BY <1>b, <2>1, <2>3, <2>4, <2>5, <2>6, <2>7
<1>d. /\ ticker' = [ticker EXCEPT !.pc = "sending", !.entries = ticker'.entries]
      /\ ticker.pc = "woken" /\ ~snapPending /\ mu' = FALSE
      /\ UNCHANGED <<log, commitIndex, snapPending, service, restarts>>
  BY DEF ApplyInv, TypeOK, collect, Take
<1>1. TypeOK'
  BY Zenon, <1>a, <1>c, <1>d DEF ApplyInv, TypeOK, Round
<1>2. Pending'
  BY Zenon, <1>a, <1>c, <1>d DEF ApplyInv, TypeOK, Pending, Round
<1>3. Progress'
  <2>1. ServiceAt(lastApplied)' /\ ticker'.sent = 0 /\ ticker'.pc = "sending"
    BY Zenon, <1>a, <1>d DEF ApplyInv, TypeOK, Progress, ServiceAt
  <2>2. lastApplied' + ticker'.sent = lastApplied' /\ ticker'.sent <= Len(ticker'.entries)
    BY <1>a, <1>c, <2>1, Types
  <2>3. QED
    BY <1>a, <1>c, <1>d, <2>1, <2>2 DEF Progress, ServiceAt
<1>4. SnapshotInv'
  BY <1>a, <1>c, <1>d DEF ApplyInv, TypeOK, Pending, Progress, ServiceAt, SnapshotInv, Round
<1>5. QED
  BY <1>1, <1>2, <1>3, <1>4 DEF ApplyInv

LEMMA CollectSnapshotStep ==
    ASSUME ApplyInv, collectSnapshot
    PROVE  ApplyInv'
<1>1. TypeOK'
  BY Zenon DEF ApplyInv, collectSnapshot, rf, TypeOK, Round
<1>2. Pending'
  BY DEF ApplyInv, collectSnapshot, rf, TypeOK, Pending, Round
<1>3. Progress'
  BY DEF ApplyInv, collectSnapshot, rf, TypeOK, Pending, Progress, ServiceAt, Round
<1>4. SnapshotInv'
  BY DEF ApplyInv, collectSnapshot, rf, TypeOK, Pending, Progress, ServiceAt, SnapshotInv, Round
<1>5. QED
  BY <1>1, <1>2, <1>3, <1>4 DEF ApplyInv

LEMMA FinishEntriesStep ==
    ASSUME ApplyInv, finishEntries
    PROVE  ApplyInv'
<1>1. TypeOK'
  BY DEF ApplyInv, finishEntries, Finish, Loop, TypeOK, Round
<1>2. Pending'
  BY DEF ApplyInv, finishEntries, Finish, Loop, TypeOK, Pending, Round
<1>3. Progress'
  BY DEF ApplyInv, finishEntries, Finish, Loop, TypeOK, Pending, Progress, ServiceAt, Round
<1>4. SnapshotInv'
  BY DEF ApplyInv, finishEntries, Finish, Loop, TypeOK, Pending, Progress, ServiceAt, SnapshotInv, Round
<1>5. QED
  BY <1>1, <1>2, <1>3, <1>4 DEF ApplyInv

LEMMA ReadSnapshotStep ==
    ASSUME ApplyInv, readSnapshot
    PROVE  ApplyInv'
<1>1. TypeOK'
  BY Zenon DEF ApplyInv, readSnapshot, rf, TypeOK, Round
<1>2. Pending'
  BY DEF ApplyInv, readSnapshot, rf, TypeOK, Pending, Round
<1>3. Progress'
  BY DEF ApplyInv, readSnapshot, rf, TypeOK, Pending, Progress, ServiceAt, Round
<1>4. SnapshotInv'
  BY DEF ApplyInv, readSnapshot, rf, TypeOK, Pending, Progress, ServiceAt, SnapshotInv, Round
<1>5. QED
  BY <1>1, <1>2, <1>3, <1>4 DEF ApplyInv

LEMMA ReadIndexStep ==
    ASSUME ApplyInv, readIndex
    PROVE  ApplyInv'
<1>1. TypeOK'
  BY Zenon DEF ApplyInv, readIndex, rf, TypeOK, Round
<1>2. Pending'
  BY DEF ApplyInv, readIndex, rf, TypeOK, Pending, Round
<1>3. Progress'
  BY DEF ApplyInv, readIndex, rf, TypeOK, Pending, Progress, ServiceAt, Round
<1>4. SnapshotInv'
  BY DEF ApplyInv, readIndex, rf, TypeOK, Pending, Progress, ServiceAt, SnapshotInv, Round
<1>5. QED
  BY <1>1, <1>2, <1>3, <1>4 DEF ApplyInv

LEMMA FinishSnapshotStep ==
    ASSUME ApplyInv, finishSnapshot
    PROVE  ApplyInv'
<1>a. /\ commitIndex' \in Nat /\ commitIndex' >= log.snapLastIdx
      /\ <<>> \in Seq(Nat)
  BY Types, MaxPair DEF finishSnapshot
<1>b. Len(service.state) = log.snapLastIdx
  BY Types, ServiceLen DEF ApplyInv, Progress, finishSnapshot
<1>1. TypeOK'
  BY Zenon, <1>a, <1>b DEF ApplyInv, finishSnapshot, Loop, TypeOK, Round
<1>2. Pending'
  BY <1>a, <1>b DEF ApplyInv, finishSnapshot, Loop, TypeOK, Pending, Round
<1>3. Progress'
  BY <1>a, <1>b DEF ApplyInv, finishSnapshot, Loop, TypeOK, Pending, Progress, ServiceAt, Round
<1>4. SnapshotInv'
  BY <1>a, <1>b DEF ApplyInv, finishSnapshot, Loop, TypeOK, Pending, Progress, ServiceAt, SnapshotInv, Round
<1>5. QED
  BY <1>1, <1>2, <1>3, <1>4 DEF ApplyInv

LEMMA SendEntryStep ==
    ASSUME ApplyInv, sendEntry
    PROVE  ApplyInv'
<1> DEFINE n == lastApplied + ticker.sent
<1>a. ServiceAt(n) /\ n \in Nat /\ Len(service.state) = n
  BY SMTT(30), Types, ServiceLen DEF ApplyInv, Progress, sendEntry
<1>b. Command = n + 1 /\ CommandIndex = n + 1 /\ n < lastApplied + Len(ticker.entries)
  <2>1. ticker.sent + 1 \in DOMAIN ticker.entries
    BY SMTT(60), Types DEF ApplyInv, TypeOK, sendEntry
  <2>2. ticker.entries[ticker.sent + 1] = lastApplied + (ticker.sent + 1)
    BY <2>1 DEF ApplyInv, Progress, sendEntry
  <2>3. QED
    BY SMTT(60), <2>2, Types DEF Command, CommandIndex, sendEntry
<1>c. /\ service' = [state |-> Entries(1, n + 1), lastApplied |-> n + 1, busy |-> TRUE]
      /\ Entries(1, n + 1) \in Seq(Nat) /\ Len(Entries(1, n + 1)) = n + 1
  <2>1. service.lastApplied <= n /\ service.state = Entries(1, n)
    BY <1>a DEF ServiceAt
  <2>2. ~(CommandIndex <= service.lastApplied)
    BY SMTT(60), <1>a, <1>b, <2>1, Types
  <2>3. QED
    <3>1. service' = [state |-> Append(service.state, Command), lastApplied |-> CommandIndex,
                      busy |-> TRUE]
      BY Zenon, <2>2 DEF sendEntry
    <3>2. n + 1 \in Nat
      BY <1>a
    <3> HIDE DEF n
    <3>3. Append(Entries(1, n), n + 1) = Entries(1, n + 1)
      BY Zenon, <1>a, EntriesNext
    <3>4. Entries(1, n + 1) \in Seq(Nat) /\ Len(Entries(1, n + 1)) = n + 1
      BY Zenon, <3>2, EntriesFrom1
    <3>5. QED
      BY Zenon, <1>b, <2>1, <3>1, <3>3, <3>4
<1>d. /\ ticker' = [ticker EXCEPT !.sent = @ + 1]
      /\ ticker.pc = "sending" /\ ticker.sent < Len(ticker.entries)
      /\ UNCHANGED <<rf, mu, restarts>>
  BY DEF sendEntry
<1> HIDE DEF n
<1>e. n + 1 = lastApplied + ticker'.sent /\ ticker'.sent = ticker.sent + 1
  BY <1>d, Types DEF n, ApplyInv, TypeOK
<1>f. ServiceAt(lastApplied + ticker.sent)' /\ Len(service'.state) = n + 1
  <2>1. (lastApplied + ticker.sent)' = n + 1
    BY <1>d, <1>e DEF rf
  <2>2. service'.state = Entries(1, n + 1) /\ service'.lastApplied = n + 1
    BY <1>c
  <2>3. QED
    BY <1>a, <1>c, <2>1, <2>2 DEF ServiceAt
<1>1. TypeOK'
  <2>1. service' \in [state : Seq(Nat), lastApplied : Nat, busy : BOOLEAN]
    BY <1>a, <1>c
  <2>2. ticker' \in [pc : {"sending"}, entries : Seq(Nat), sent : Nat, bytes : Seq(Nat), index : Nat]
    <3>1. ticker.sent + 1 \in Nat
      BY Types
    <3>2. ticker \in [pc : {"sending"}, entries : Seq(Nat), sent : Nat, bytes : Seq(Nat), index : Nat]
      BY <1>d DEF ApplyInv, TypeOK
    <3>3. QED
      BY Zenon, <1>d, <3>1, <3>2
  <2>3. QED
    BY <1>d, <2>1, <2>2 DEF ApplyInv, rf, TypeOK
<1>2. Pending'
  BY SMTT(60), <1>d DEF ApplyInv, rf, TypeOK, Pending, Round
<1>3. Progress'
  <2>1. ticker'.pc = "sending" /\ ticker'.entries = ticker.entries /\ ticker'.sent = ticker.sent + 1
    BY <1>d DEF ApplyInv, TypeOK
  <2>2. ticker'.sent <= Len(ticker'.entries)
    BY <1>d, <2>1, Types
  <2>3. QED
    BY <1>d, <1>f, <2>1, <2>2 DEF ApplyInv, rf, Progress
<1>4. SnapshotInv'
  <2>1. ~snapPending /\ log.snapLastIdx <= n /\ lastApplied + Len(ticker.entries) <= commitIndex
    BY SMTT(60), <1>a, <1>d, Types DEF ApplyInv, TypeOK, Pending, Progress, SnapshotInv
  <2>2. QED
    BY SMTT(60), <1>a, <1>b, <1>d, <1>f, <2>1, Types DEF ApplyInv, rf, SnapshotInv
<1>5. QED
  BY <1>1, <1>2, <1>3, <1>4 DEF ApplyInv

LEMMA SendSnapshotStep ==
    ASSUME ApplyInv, sendSnapshot
    PROVE  ApplyInv'
<1>a. /\ ticker.bytes = Entries(1, log.snapLastIdx) /\ ticker.index = log.snapLastIdx
      /\ snapPending /\ lastApplied < log.snapLastIdx
  BY DEF ApplyInv, Pending, Progress, SnapshotInv, Round, sendSnapshot
<1>b. /\ Entries(1, log.snapLastIdx) \in Seq(Nat)
      /\ Len(Entries(1, log.snapLastIdx)) = log.snapLastIdx
  BY Types, EntriesFrom1
<1>c. service'.state = Entries(1, log.snapLastIdx)
  <2>1. Entries(1, log.snapLastIdx) # <<>>
    BY <1>a, <1>b, Types
  <2>2. QED
    BY <1>a, <2>1 DEF sendSnapshot, ApplyInv, TypeOK
<1>1. TypeOK'
  BY Zenon, <1>a, <1>b, <1>c DEF ApplyInv, sendSnapshot, rf, TypeOK, Round
<1>2. Pending'
  BY <1>a, <1>b, <1>c DEF ApplyInv, sendSnapshot, rf, TypeOK, Pending, Round
<1>3. Progress'
  BY <1>a, <1>b, <1>c DEF ApplyInv, sendSnapshot, rf, TypeOK, Pending, Progress, ServiceAt, Round
<1>4. SnapshotInv'
  BY <1>a, <1>b, <1>c DEF ApplyInv, sendSnapshot, rf, TypeOK, Pending, Progress, ServiceAt, SnapshotInv, Round
<1>5. QED
  BY <1>1, <1>2, <1>3, <1>4 DEF ApplyInv

LEMMA AdvanceStep ==
    ASSUME ApplyInv, NEW last \in Nat, NEW n \in Nat, advance(last, n)
    PROVE  ApplyInv'
<1>a. /\ log' = [log EXCEPT !.last = last]
      /\ commitIndex' = n /\ n >= commitIndex
      /\ UNCHANGED <<lastApplied, snapPending, mu, service, restarts>>
  BY Types DEF advance
<1>b. \/ ticker' = ticker
      \/ ticker.pc = "waiting" /\ ticker' = [ticker EXCEPT !.pc = "woken"]
  BY DEF advance, Signal
<1>1. TypeOK'
  BY Zenon, <1>a, <1>b DEF ApplyInv, TypeOK, Round
<1>2. Pending'
  BY Zenon, <1>a, <1>b DEF ApplyInv, TypeOK, Pending, Round
<1>3. Progress'
  <2>1. /\ log'.snapshot = log.snapshot /\ log'.snapLastIdx = log.snapLastIdx
        /\ lastApplied' = lastApplied /\ service' = service
    BY <1>a DEF ApplyInv, TypeOK
  <2>2. CASE ticker' = ticker
    BY <1>a, <2>1, <2>2, Types DEF ApplyInv, Progress, ServiceAt
  <2>3. CASE ticker.pc = "waiting" /\ ticker' = [ticker EXCEPT !.pc = "woken"]
    BY <2>1, <2>3 DEF ApplyInv, TypeOK, Progress, ServiceAt
  <2>4. QED
    BY <1>b, <2>2, <2>3
<1>4. SnapshotInv'
  BY SMTT(60), <1>a, <1>b DEF ApplyInv, TypeOK, Pending, Progress, ServiceAt, SnapshotInv, Round
<1>5. QED
  BY <1>1, <1>2, <1>3, <1>4 DEF ApplyInv

LEMMA InstallStep ==
    ASSUME ApplyInv, Disturbing = {}, NEW index \in Nat, InstallSnapshot(index)
    PROVE  ApplyInv'
<1>a. /\ ticker.pc = "waiting" /\ ticker' = [ticker EXCEPT !.pc = "woken"]
      /\ index > lastApplied
      /\ snapPending' = TRUE
      /\ UNCHANGED <<commitIndex, lastApplied, mu, service, restarts>>
  BY DEF InstallSnapshot, Install, Signal
<1>b. /\ log' = [snapLastIdx |-> index, snapshot |-> Entries(1, index), last |-> log'.last]
      /\ log'.last \in Nat
      /\ Entries(1, index) \in Seq(Nat)
  BY Zenon, Types, EntriesFrom1, MaxPair DEF InstallSnapshot, Install
<1>d. log' \in [snapLastIdx : Nat, snapshot : Seq(Nat), last : Nat]
  BY <1>b
<1>c. Len(service.state) = lastApplied
  BY <1>a, Types, ServiceLen DEF ApplyInv, Progress
<1>1. TypeOK'
  BY Zenon, <1>a, <1>b, <1>c, <1>d DEF ApplyInv, TypeOK, Round
<1>2. Pending'
  BY <1>a, <1>b, <1>c, <1>d DEF ApplyInv, TypeOK, Pending, Round
<1>3. Progress'
  BY <1>a, <1>b, <1>c, <1>d DEF ApplyInv, TypeOK, Pending, Progress, ServiceAt, Round
<1>4. SnapshotInv'
  BY SMTT(60), <1>a, <1>b, <1>c, <1>d DEF ApplyInv, TypeOK, Pending, Progress, ServiceAt, SnapshotInv, Round
<1>5. QED
  BY <1>1, <1>2, <1>3, <1>4 DEF ApplyInv

LEMMA ApplyTaskEndStep ==
    ASSUME ApplyInv, applyTaskEnd
    PROVE  ApplyInv'
<1>1. TypeOK'
  BY Zenon DEF ApplyInv, applyTaskEnd, rf, TypeOK, Round
<1>2. Pending'
  BY DEF ApplyInv, applyTaskEnd, rf, TypeOK, Pending, Round
<1>3. Progress'
  BY Zenon DEF ApplyInv, applyTaskEnd, rf, TypeOK, Pending, Progress, ServiceAt, Round
<1>4. SnapshotInv'
  BY DEF ApplyInv, applyTaskEnd, rf, TypeOK, Pending, Progress, ServiceAt, SnapshotInv, Round
<1>5. QED
  BY <1>1, <1>2, <1>3, <1>4 DEF ApplyInv

LEMMA MakeSnapshotStep ==
    ASSUME ApplyInv, makeSnapshot
    PROVE  ApplyInv'
<1> DEFINE index == service.lastApplied
<1>a. /\ \/ log' = log
         \/ /\ log' = [log EXCEPT !.snapLastIdx = index, !.snapshot = service.state]
            /\ index > log.snapLastIdx /\ index <= commitIndex
      /\ service.busy
      /\ service' = [service EXCEPT !.busy = FALSE]
      /\ UNCHANGED <<commitIndex, lastApplied, snapPending, ticker, mu, restarts>>
  BY DEF makeSnapshot
<1>b. /\ service.state = Entries(1, index) /\ Len(service.state) = index /\ index \in Nat
      /\ ticker.pc \in {"snapshot", "index", "delivering"} => index = lastApplied
      /\ ticker.pc # "finish"
  <2>1. ticker.pc # "finish"
    BY DEF ApplyInv, Progress, makeSnapshot
  <2>2. CASE ticker.pc = "sending"
    <3>1. ServiceAt(lastApplied + ticker.sent)
      BY <2>2 DEF ApplyInv, Progress
    <3>2. QED
      BY <2>2, <3>1, Types, ServiceLen DEF ServiceAt, makeSnapshot
  <2>3. CASE ticker.pc # "sending"
    <3>1. ServiceAt(lastApplied)
      BY <2>1, <2>3 DEF ApplyInv, TypeOK, Progress, Round
    <3>2. QED
      BY <2>1, <3>1, Types, ServiceLen DEF ServiceAt, makeSnapshot
  <2>4. QED
    BY <2>2, <2>3
<1>c. snapPending => index < log.snapLastIdx
  <2>1. SUFFICES ASSUME snapPending PROVE index < log.snapLastIdx
    OBVIOUS
  <2>2. ticker.pc # "sending" /\ lastApplied < log.snapLastIdx
    BY <2>1 DEF ApplyInv, Pending, SnapshotInv
  <2>3. ServiceAt(lastApplied)
    BY <1>b, <2>2 DEF ApplyInv, TypeOK, Progress, Round
  <2>4. QED
    BY <2>2, <2>3, <1>a DEF ServiceAt
<1>1. TypeOK'
  BY Zenon, <1>a, <1>b, <1>c DEF ApplyInv, TypeOK, Round
<1>2. Pending'
  BY <1>a, <1>b, <1>c DEF ApplyInv, TypeOK, Pending, Round
<1>3. Progress'
  BY SMTT(60), <1>a, <1>b, <1>c DEF ApplyInv, TypeOK, Pending, Progress, ServiceAt, Round
<1>4. SnapshotInv'
  <2>1. service'.state = service.state
    BY <1>a DEF ApplyInv, TypeOK
  <2>2. CASE log' = log
    BY <1>a, <2>1, <2>2 DEF ApplyInv, SnapshotInv
  <2>3. CASE /\ log' = [log EXCEPT !.snapLastIdx = index, !.snapshot = service.state]
             /\ index > log.snapLastIdx /\ index <= commitIndex
    <3>1. log'.snapLastIdx = index /\ log'.snapshot = Entries(1, index)
      BY <1>b, <2>3 DEF ApplyInv, TypeOK
    <3>2. ~snapPending
      BY <1>b, <1>c, <2>3, Types
    <3>3. QED
      BY <1>a, <1>b, <2>1, <3>1, <3>2 DEF SnapshotInv
  <2>4. QED
    BY <1>a, <2>2, <2>3
<1>5. QED
  BY <1>1, <1>2, <1>3, <1>4 DEF ApplyInv

LEMMA RestartStep ==
    ASSUME ApplyInv, Restart
    PROVE  ApplyInv'
<1>a. log.snapshot = Entries(1, log.snapLastIdx) /\ Len(log.snapshot) = log.snapLastIdx
  BY Types, EntriesFrom1 DEF ApplyInv, SnapshotInv
<1>b. /\ restarts' = restarts + 1 /\ commitIndex' = log.snapLastIdx
      /\ lastApplied' = log.snapLastIdx /\ snapPending' = FALSE /\ mu' = FALSE
      /\ service' = [state |-> log.snapshot, lastApplied |-> 0, busy |-> FALSE]
      /\ log' = log
  BY DEF Restart
<1>c. /\ ticker' = [pc |-> "loop", entries |-> <<>>, sent |-> 0, bytes |-> <<>>, index |-> 0]
      /\ <<>> \in Seq(Nat)
  BY DEF Restart, Loop
<1>d. service' \in [state : Seq(Nat), lastApplied : Nat, busy : BOOLEAN]
  BY <1>b DEF ApplyInv, TypeOK
<1>e. ticker' \in [pc : {"loop"}, entries : Seq(Nat), sent : Nat, bytes : Seq(Nat), index : Nat]
  BY <1>c
<1>1. TypeOK'
  <2>1. snapPending' \in BOOLEAN
    BY Zenon, <1>b
  <2>2. ticker' \in [pc : {"loop", "waiting", "woken", "sending"} \cup Round,
                     entries : Seq(Nat), sent : Nat, bytes : Seq(Nat), index : Nat]
    BY <1>c DEF Round
  <2>3. QED
    BY <1>b, <1>d, <2>1, <2>2, Types DEF ApplyInv, TypeOK
<1>2. Pending'
  BY <1>a, <1>b, <1>c, <1>d, <1>e DEF ApplyInv, TypeOK, Pending, Round
<1>3. Progress'
  BY <1>a, <1>b, <1>c, <1>d, <1>e DEF ApplyInv, TypeOK, Pending, Progress, ServiceAt, Round
<1>4. SnapshotInv'
  BY SMTT(30), <1>a, <1>b, <1>c, <1>d, <1>e DEF ApplyInv, TypeOK, Pending, Progress, ServiceAt, SnapshotInv, Round
<1>5. QED
  BY <1>1, <1>2, <1>3, <1>4 DEF ApplyInv

LEMMA NextStep ==
    ASSUME ApplyInv, Disturbing = {}, [Next]_vars
    PROVE  ApplyInv'
<1>1. CASE Ticker
  BY <1>1, WaitStep, CollectStep, CollectSnapshotStep, FinishEntriesStep, ReadSnapshotStep,
     ReadIndexStep, FinishSnapshotStep DEF Ticker
<1>2. CASE Channel
  BY <1>2, SendEntryStep, SendSnapshotStep DEF Channel
<1>3. CASE Service
  BY <1>3, ApplyTaskEndStep, MakeSnapshotStep DEF Service
<1>4. CASE Others
  <2>1. \A n \in 0..MaxIndex : n \in Nat
    BY ApplyAssumption
  <2>2. \A n \in 1..MaxIndex : n \in Nat
    BY ApplyAssumption
  <2>3. QED
    BY <1>4, <2>1, <2>2, AdvanceStep, InstallStep, RestartStep DEF Others
<1>5. CASE UNCHANGED vars
  BY <1>5 DEF ApplyInv, TypeOK, Pending, Progress, ServiceAt, SnapshotInv, vars
<1>6. QED
  BY <1>1, <1>2, <1>3, <1>4, <1>5 DEF Next

\* The service is built from exactly the entries up to its length.
LEMMA ServiceIsPrefix ==
    ASSUME ApplyInv
    PROVE  \E n \in Nat : service.state = Entries(1, n)
<1>1. lastApplied \in Nat /\ log.snapLastIdx \in Nat /\ lastApplied + ticker.sent \in Nat
  BY SMTT(60) DEF ApplyInv, TypeOK
<1>2. \/ ServiceAt(lastApplied) \/ ServiceAt(lastApplied + ticker.sent)
      \/ ServiceAt(log.snapLastIdx)
  BY DEF ApplyInv, TypeOK, Progress, Round
<1>3. QED
  BY <1>1, <1>2 DEF ServiceAt

LEMMA ApplyInvImplies ==
    ASSUME ApplyInv
    PROVE  ServiceExact /\ AppliedIsCommitted
<1>1. PICK n \in Nat : service.state = Entries(1, n)
  BY ServiceIsPrefix
<1>2. DOMAIN service.state = 1..n /\ \A k \in 1..n : service.state[k] = k
  BY SMTT(60), <1>1, EntriesFrom1
<1>3. n <= commitIndex \/ n <= log.snapLastIdx
  BY <1>1, EntriesFrom1 DEF ApplyInv, SnapshotInv
<1>4. /\ Max({commitIndex, log.snapLastIdx}) \in Nat
      /\ Max({commitIndex, log.snapLastIdx}) >= commitIndex
      /\ Max({commitIndex, log.snapLastIdx}) >= log.snapLastIdx
  BY Types, MaxPair
<1>5. QED
  BY SMTT(30), <1>2, <1>3, <1>4, Types DEF ServiceExact, AppliedIsCommitted

\* applicationTicker and applyTask: the service has applied the entries 1, 2,
\* 3... each once and none left out, over batches, compaction, snapshots and
\* restarts.
THEOREM ServiceIsExact ==
    ASSUME Disturbing = {}
    PROVE  Spec => []ServiceExact
<1>1. ApplyInv /\ [Next]_vars => ApplyInv'
  BY NextStep
<1>2. ApplyInv => ServiceExact
  BY ApplyInvImplies
<1>3. QED
  BY <1>1, <1>2, InitInv, PTL DEF Spec

\* applicationTicker never hands the service an entry before it is committed,
\* by commitIndex or by the leader whose snapshot was installed.
THEOREM OnlyCommittedApplied ==
    ASSUME Disturbing = {}
    PROVE  Spec => []AppliedIsCommitted
<1>1. ApplyInv /\ [Next]_vars => ApplyInv'
  BY NextStep
<1>2. ApplyInv => AppliedIsCommitted
  BY ApplyInvImplies
<1>3. QED
  BY <1>1, <1>2, InitInv, PTL DEF Spec
=============================================================================
