----------------------------- MODULE RaftProofs -----------------------------
(***************************************************************************)
(* Theorems about Raft for any number of peers, any network behaviour and  *)
(* any value of the bounds: the types of the state, that the disk is never *)
(* behind the memory, and that votes are stable.                           *)
(*                                                                         *)
(* Good(rf) is what every peer satisfies between two critical sections and *)
(* Evolves(rf, f) what a critical section that turns rf into f may do to   *)
(* it.  The lemmas about the operations on the struct give these two for   *)
(* each operation; those about the actions add the messages.               *)
(***************************************************************************)
EXTENDS Raft, FiniteSetTheorems, SequenceTheorems, TLAPS

-----------------------------------------------------------------------------
(* Least and greatest elements of sets of natural numbers. *)

\* A nonempty set of natural numbers has a least element.
LEMMA MinExists ==
    ASSUME NEW S \in SUBSET Nat, S # {}
    PROVE  \E x \in S : \A y \in S : x <= y
<1> DEFINE R == OpToRel(<, Nat)
<1>1. IsWellFoundedOn(R, Nat)
  BY NatLessThanWellFounded
<1>2. \A x, y \in Nat : y < x => <<y, x>> \in R
  BY DEF OpToRel
<1> HIDE DEF R
<1>3. PICK x \in S : \A y \in S : ~(<<y, x>> \in R)
  BY Zenon, <1>1, WFMin
<1>4. \A y \in S : ~(y < x)
  BY <1>2, <1>3, Zenon
<1>5. \A y \in S : x <= y
  BY <1>4
<1>6. QED
  BY <1>5

\* A nonempty finite set of natural numbers has a greatest element: a
\* smallest set without one would lose an element and still have none.
LEMMA MaxExists ==
    ASSUME NEW S \in SUBSET Nat, S # {}, IsFiniteSet(S)
    PROVE  \E x \in S : \A y \in S : x >= y
<1> DEFINE HasMax(T) == \E x \in T : \A y \in T : x >= y
           Bad == {T \in SUBSET S : T # {} /\ ~HasMax(T)}
           Sizes == {Cardinality(T) : T \in Bad}
<1>1. SUFFICES ASSUME Bad # {} PROVE FALSE
  OBVIOUS
<1>2. \A T \in SUBSET S : IsFiniteSet(T) /\ Cardinality(T) \in Nat
  BY Zenon, FS_Subset, FS_CardinalityType
<1>3. PICK n \in Sizes : \A m \in Sizes : n <= m
  <2>1. Sizes \in SUBSET Nat /\ Sizes # {}
    BY <1>1, <1>2
  <2>2. QED
    BY Zenon, <2>1, MinExists
<1>4. PICK T \in Bad : n = Cardinality(T)
  BY <1>3
<1>5. PICK x \in T : TRUE
  BY <1>4
<1>6. Cardinality(T \ {x}) = n - 1 /\ n \in Nat
  BY Zenon, <1>2, <1>4, <1>5, FS_RemoveElement
<1>7. T \ {x} \notin Bad
  <2>1. SUFFICES ASSUME T \ {x} \in Bad PROVE FALSE
    OBVIOUS
  <2>2. n - 1 \in Sizes
    BY Zenon, <1>6, <2>1
  <2>3. QED
    BY <1>3, <1>6, <2>2
<1>8. CASE T \ {x} = {}
  <2>1. \A y \in T : y = x
    BY <1>8
  <2>2. x \in Nat
    BY <1>4, <1>5
  <2>3. HasMax(T)
    BY <1>5, <2>1, <2>2
  <2>4. QED
    BY <1>4, <2>3
<1>9. CASE T \ {x} # {}
  <2>1. HasMax(T \ {x})
    BY <1>7, <1>9, <1>4
  <2>2. PICK z \in T \ {x} : \A y \in T \ {x} : z >= y
    BY <2>1
  <2>3. x \in Nat /\ z \in Nat /\ T \subseteq Nat
    BY <1>4, <1>5, <2>2
  <2>4. HasMax(T)
    <3>1. CASE x >= z
      <4>1. \A y \in T : x >= y
        BY <2>2, <2>3, <3>1
      <4>2. QED
        BY <1>5, <4>1
    <3>2. CASE z > x
      <4>1. \A y \in T : z >= y
        BY <2>2, <2>3, <3>2
      <4>2. QED
        BY <2>2, <4>1
    <3>3. QED
      BY <2>3, <3>1, <3>2
  <2>5. QED
    BY <1>4, <2>4
<1>10. QED
  BY <1>8, <1>9

\* Max is the greatest element of a finite set, as in getMajorityIndexLocked.
LEMMA MaxType ==
    ASSUME NEW S \in SUBSET Nat, S # {}, IsFiniteSet(S)
    PROVE  Max(S) \in S /\ \A y \in S : Max(S) >= y
    BY Zenon, MaxExists DEF Max

\* The larger of two, as in the updates of commitIndex.
LEMMA MaxPair ==
    ASSUME NEW a \in Nat, NEW b \in Nat
    PROVE  Max({a, b}) = IF a >= b THEN a ELSE b
    BY DEF Max

\* The smaller of two, as where a late reply must not move nextIndex forward.
LEMMA MinPair ==
    ASSUME NEW a \in Nat, NEW b \in Nat
    PROVE  Min({a, b}) = IF a <= b THEN a ELSE b
    BY DEF Min

-----------------------------------------------------------------------------
(* What the operations of the log keep: its type, its length, and the
   history it stands for. *)

\* The fields of a log, one by one: the struct RaftLog as the code keeps it.
LEMMA LogFields ==
    ASSUME NEW rl \in LogType
    PROVE  /\ rl.snapLastIdx \in Nat
           /\ rl.snapLastTerm \in Nat
           /\ rl.snapshot \in Seq(Entry)
           /\ Len(rl.snapshot) = rl.snapLastIdx
           /\ rl.tailLog \in Seq(Entry)
           /\ rl.tailLog # <<>>
           /\ Len(rl.tailLog) \in Nat
           /\ Len(rl.tailLog) >= 1
    BY EmptySeq DEF LogType

\* Replacing tailLog by another nonempty sequence of entries yields a log
\* with the same snapshot: the shape of append and appendFrom.
LEMMA WithTail ==
    ASSUME NEW rl \in LogType, NEW tl \in Seq(Entry), tl # <<>>
    PROVE  /\ [rl EXCEPT !.tailLog = tl] \in LogType
           /\ [rl EXCEPT !.tailLog = tl].tailLog = tl
           /\ [rl EXCEPT !.tailLog = tl].snapLastIdx = rl.snapLastIdx
<1>1. [rl EXCEPT !.tailLog = tl] \in LogType
  BY DEF LogType
<1>2. /\ [rl EXCEPT !.tailLog = tl].tailLog = tl
      /\ [rl EXCEPT !.tailLog = tl].snapLastIdx = rl.snapLastIdx
  BY DEF LogType
<1>3. QED
  BY <1>1, <1>2

\* Sizes and indices of a log are natural numbers, and the last index is
\* never below the snapshot: size and last of the code.
LEMMA SizeType ==
    ASSUME NEW rl \in LogType
    PROVE  /\ size(rl) \in Nat
           /\ size(rl) >= 1
           /\ lastIndex(rl) \in Nat
           /\ rl.snapLastIdx <= lastIndex(rl)
           /\ lastIndex(rl) + 1 = size(rl)
           /\ lastIndex(rl) = rl.snapLastIdx + Len(rl.tailLog) - 1
    BY LogFields DEF size, lastIndex

\* at reads an entry of the log whenever idx does not panic.
LEMMA AtType ==
    ASSUME NEW rl \in LogType, NEW i \in Int, InRange(rl, i)
    PROVE  /\ idx(rl, i) \in 1..Len(rl.tailLog)
           /\ at(rl, i) \in Entry
           /\ at(rl, i).Term \in Nat
<1>1. idx(rl, i) \in 1..Len(rl.tailLog)
  BY LogFields DEF InRange, size, idx
<1>2. at(rl, i) \in Entry
  BY <1>1, LogFields, ElementOfSeq DEF at
<1>3. QED
  BY <1>1, <1>2 DEF Entry

\* The term of the last entry is a term.
LEMMA LastTermType ==
    ASSUME NEW rl \in LogType
    PROVE  lastTerm(rl) \in Nat
<1>1. rl.tailLog # <<>> /\ rl.tailLog[Len(rl.tailLog)] \in Entry
  <2>1. Len(rl.tailLog) \in 1..Len(rl.tailLog)
    BY LogFields
  <2>2. QED
    BY <2>1, LogFields, ElementOfSeq
<1>2. rl.tailLog[Len(rl.tailLog)].Term \in Nat
  BY <1>1 DEF Entry
<1>3. QED
  BY <1>1, <1>2 DEF lastTerm

\* firstFor returns an index, InvalidIndex (0) included.
LEMMA FirstForType ==
    ASSUME NEW rl \in LogType, NEW term \in Nat
    PROVE  firstFor(rl, term) \in Nat
<1> DEFINE hits == {p \in DOMAIN rl.tailLog :
                       /\ rl.tailLog[p].Term = term
                       /\ \A q \in 1..(p - 1) : rl.tailLog[q].Term < term}
<1>1. hits \subseteq 1..Len(rl.tailLog)
  BY LogFields, LenProperties
<1>2. hits # {} => (CHOOSE p \in hits : TRUE) \in 1..Len(rl.tailLog)
  BY Zenon, <1>1
<1> HIDE DEF hits
<1>3. QED
  BY SMTT(60), <1>2, LogFields DEF firstFor, InvalidIndex, hits

\* The tail of a log from an index above its snapshot on, and its length.
LEMMA TailType ==
    ASSUME NEW rl \in LogType, NEW i \in Nat, rl.snapLastIdx <= i
    PROVE  /\ tail(rl, i) \in Seq(Entry)
           /\ Len(tail(rl, i)) = IF i < size(rl) THEN size(rl) - i ELSE 0
<1> DEFINE a == idx(rl, i)
           n == Len(rl.tailLog)
<1>1. a \in Int /\ a >= 1 /\ n \in Nat /\ n - a + 1 = size(rl) - i /\ size(rl) \in Int
  BY SMTT(60), LogFields DEF idx, size
<1>2. tail(rl, i) = SubSeq(rl.tailLog, a, n)
  <2>1. ~(i < rl.snapLastIdx)
    BY LogFields
  <2>2. QED
    BY <2>1, Zenon DEF tail
<1> HIDE DEF a, n
<1>3. \A k \in a..n : rl.tailLog[k] \in Entry
  BY <1>1, LogFields, ElementOfSeq DEF n
<1>4. SubSeq(rl.tailLog, a, n) \in Seq(Entry)
      /\ Len(SubSeq(rl.tailLog, a, n)) = IF a <= n THEN n - a + 1 ELSE 0
  BY <1>1, <1>3, SubSeqProperties
<1>5. QED
  BY <1>1, <1>2, <1>4

\* A new log is a log.
LEMMA NewLogType == NewLog \in LogType
<1>1. dummy(InvalidTerm) \in Entry
  BY DEF dummy, InvalidTerm, Entry
<1>2. <<dummy(InvalidTerm)>> \in Seq(Entry) /\ <<dummy(InvalidTerm)>> # <<>>
  BY <1>1
<1>3. <<>> \in Seq(Entry) /\ Len(<<>>) = 0
  BY EmptySeq
<1> DEFINE tl == <<dummy(InvalidTerm)>>
           sn == <<>>
<1> HIDE DEF tl, sn
<1>4. [snapLastIdx |-> 0, snapLastTerm |-> 0, snapshot |-> sn, tailLog |-> tl] \in LogType
  BY <1>2, <1>3 DEF LogType, tl, sn
<1>5. QED
  BY <1>4 DEF NewLog, InvalidIndex, InvalidTerm, tl, sn

\* Appending an entry makes the log one longer.
LEMMA AppendType ==
    ASSUME NEW rl \in LogType, NEW e \in Entry
    PROVE  append(rl, e) \in LogType /\ lastIndex(append(rl, e)) = lastIndex(rl) + 1
<1> DEFINE tl == Append(rl.tailLog, e)
<1>1. tl \in Seq(Entry) /\ tl # <<>> /\ Len(tl) = Len(rl.tailLog) + 1
  BY LogFields, AppendProperties
<1>2. append(rl, e) = [rl EXCEPT !.tailLog = tl]
  BY DEF append
<1> HIDE DEF tl
<1> DEFINE new == [rl EXCEPT !.tailLog = tl]
<1>3. new \in LogType /\ new.tailLog = tl /\ new.snapLastIdx = rl.snapLastIdx
  BY <1>1, WithTail
<1> HIDE DEF new
<1>4. lastIndex(new) = lastIndex(rl) + 1
  <2>1. lastIndex(new) = rl.snapLastIdx + (Len(rl.tailLog) + 1) - 1
    BY Zenon, <1>1, <1>3, SizeType
  <2>2. QED
    BY <2>1, SizeType, LogFields
<1>5. QED
  BY <1>2, <1>3, <1>4 DEF new

\* Appending behind an index of the log yields a log that ends with the
\* last of the new entries: appendFrom drops whatever was there.
LEMMA AppendFromType ==
    ASSUME NEW rl \in LogType, NEW prev \in Nat, InRange(rl, prev), NEW entries \in Seq(Entry)
    PROVE  /\ appendFrom(rl, prev, entries) \in LogType
           /\ lastIndex(appendFrom(rl, prev, entries)) = prev + Len(entries)
<1> DEFINE head == SubSeq(rl.tailLog, 1, idx(rl, prev))
           tl == head \o entries
<1>1. idx(rl, prev) \in 1..Len(rl.tailLog) /\ Len(entries) \in Nat
  BY AtType, LenProperties
<1>2. head \in Seq(Entry) /\ Len(head) = idx(rl, prev)
  BY <1>1, LogFields, ElementOfSeq, SubSeqProperties
<1>3. appendFrom(rl, prev, entries) = [rl EXCEPT !.tailLog = tl]
  BY DEF appendFrom
<1> HIDE DEF head
<1>4. tl \in Seq(Entry) /\ Len(tl) = idx(rl, prev) + Len(entries)
  BY Zenon, <1>2, ConcatProperties
<1> HIDE DEF tl
<1>5. tl # <<>>
  BY <1>1, <1>4, EmptySeq
<1> DEFINE new == [rl EXCEPT !.tailLog = tl]
<1>6. new \in LogType /\ new.tailLog = tl /\ new.snapLastIdx = rl.snapLastIdx
  BY <1>4, <1>5, WithTail
<1> HIDE DEF new
<1>7. lastIndex(new) = rl.snapLastIdx + (idx(rl, prev) + Len(entries)) - 1
  BY Zenon, <1>4, <1>6, SizeType
<1>8. lastIndex(new) = prev + Len(entries)
  BY SMTT(60), <1>1, <1>7, LogFields DEF idx
<1>9. QED
  BY <1>3, <1>6, <1>8 DEF new

\* Cutting a log at an index above its snapshot yields a log that starts
\* there and ends where it ended, or at the cut if that is further.
LEMMA CutAtType ==
    ASSUME NEW rl \in LogType, NEW index \in Nat, rl.snapLastIdx <= index,
           NEW term \in Nat, NEW snapshot \in Seq(Entry), Len(snapshot) = index
    PROVE  /\ cutAt(rl, index, term, snapshot) \in LogType
           /\ lastIndex(cutAt(rl, index, term, snapshot))
                 = IF index < lastIndex(rl) THEN lastIndex(rl) ELSE index
<1> DEFINE rest == tail(rl, index + 1)
           start == <<dummy(term)>>
           tl == start \o rest
<1>1. rest \in Seq(Entry) /\ Len(rest) = IF index + 1 < size(rl) THEN size(rl) - (index + 1) ELSE 0
  BY LogFields, TailType
<1>2. start \in Seq(Entry) /\ Len(start) = 1
  <2>1. dummy(term) \in Entry
    BY DEF dummy, Entry
  <2>2. QED
    BY <2>1
<1>3. cutAt(rl, index, term, snapshot) =
        [snapLastIdx |-> index, snapLastTerm |-> term, snapshot |-> snapshot, tailLog |-> tl]
  BY DEF cutAt
<1> HIDE DEF rest, start
<1>4. tl \in Seq(Entry) /\ Len(tl) = 1 + Len(rest)
  BY <1>1, <1>2, ConcatProperties, ZenonT(60)
<1> HIDE DEF tl
<1>5. tl # <<>>
  <2>1. Len(rest) \in Nat
    BY <1>1, LenProperties
  <2>2. Len(tl) # 0
    BY <1>4, <2>1
  <2>3. QED
    BY <2>2, EmptySeq
<1>6. [snapLastIdx |-> index, snapLastTerm |-> term, snapshot |-> snapshot, tailLog |-> tl] \in LogType
  BY <1>4, <1>5 DEF LogType
<1> DEFINE new == cutAt(rl, index, term, snapshot)
<1>7. new \in LogType /\ new.snapLastIdx = index /\ new.tailLog = tl
  BY <1>3, <1>6
<1> HIDE DEF new
<1>8. lastIndex(new) = index + (1 + Len(rest)) - 1
  BY Zenon, <1>4, <1>7, SizeType
<1>9. lastIndex(new) = IF index < lastIndex(rl) THEN lastIndex(rl) ELSE index
  <2>1. size(rl) \in Nat /\ lastIndex(rl) \in Nat /\ lastIndex(rl) + 1 = size(rl)
    BY SizeType
  <2>2. QED
    BY SMTT(60), <1>1, <1>8, <2>1
<1>10. QED
  BY <1>7, <1>9 DEF new

\* The history of a log is as long as the log.
LEMMA HistoryType ==
    ASSUME NEW rl \in LogType
    PROVE  History(rl) \in Seq(Entry) /\ Len(History(rl)) = lastIndex(rl)
<1> DEFINE t == Tail(rl.tailLog)
<1>1. t \in Seq(Entry) /\ Len(t) = Len(rl.tailLog) - 1
  BY LogFields, HeadTailProperties
<1> HIDE DEF t
<1>2. rl.snapshot \o t \in Seq(Entry) /\ Len(rl.snapshot \o t) = Len(rl.snapshot) + Len(t)
  BY Zenon, <1>1, LogFields, ConcatProperties
<1>3. History(rl) = rl.snapshot \o t
  BY DEF History, t
<1>4. lastIndex(rl) = rl.snapLastIdx + Len(rl.tailLog) - 1
  BY SizeType
<1> DEFINE h == rl.snapshot \o t
<1> HIDE DEF h
<1>5. h \in Seq(Entry) /\ Len(h) = lastIndex(rl)
  BY Zenon, <1>1, <1>2, <1>4, LogFields DEF h
<1>6. QED
  BY <1>3, <1>5 DEF h

\* A prefix of the history is as long as asked for.
LEMMA PrefixType ==
    ASSUME NEW rl \in LogType, NEW n \in Nat, n <= lastIndex(rl)
    PROVE  Prefix(rl, n) \in Seq(Entry) /\ Len(Prefix(rl, n)) = n
<1> DEFINE h == History(rl)
<1>1. h \in Seq(Entry) /\ Len(h) = lastIndex(rl)
  BY HistoryType
<1> HIDE DEF h
<1>2. \A i \in 1..n : h[i] \in Entry
  BY <1>1, ElementOfSeq, SizeType
<1>3. SubSeq(h, 1, n) \in Seq(Entry) /\ Len(SubSeq(h, 1, n)) = n
  BY <1>2, SubSeqProperties
<1>4. QED
  BY <1>3 DEF Prefix, h

\* A snapshot of the service leaves the end of the log where it was; an
\* index outside the log leaves the log alone: doSnapshot.
LEMMA DoSnapshotType ==
    ASSUME NEW rl \in LogType, NEW index \in Nat
    PROVE  /\ doSnapshot(rl, index, Prefix(rl, index)) \in LogType
           /\ lastIndex(doSnapshot(rl, index, Prefix(rl, index))) = lastIndex(rl)
<1>1. CASE InRange(rl, index) /\ index > rl.snapLastIdx
  <2>1. index <= lastIndex(rl) /\ rl.snapLastIdx <= index /\ lastIndex(rl) \in Nat
    BY <1>1, SizeType, LogFields DEF InRange
  <2>2. Prefix(rl, index) \in Seq(Entry) /\ Len(Prefix(rl, index)) = index
    BY <2>1, PrefixType
  <2>3. at(rl, index).Term \in Nat
    BY <1>1, AtType
  <2>4. doSnapshot(rl, index, Prefix(rl, index)) = cutAt(rl, index, at(rl, index).Term, Prefix(rl, index))
    BY <1>1 DEF doSnapshot
  <2> DEFINE c == cutAt(rl, index, at(rl, index).Term, Prefix(rl, index))
  <2>5. c \in LogType /\ lastIndex(c) = IF index < lastIndex(rl) THEN lastIndex(rl) ELSE index
    BY <2>1, <2>2, <2>3, CutAtType
  <2> HIDE DEF c
  <2>6. QED
    BY <2>1, <2>4, <2>5 DEF c
<1>2. QED
  BY <1>1 DEF doSnapshot

\* Installing a snapshot of the leader yields a log: installSnapshot.
LEMMA InstallSnapshotType ==
    ASSUME NEW rl \in LogType, NEW index \in Nat, NEW term \in Nat,
           NEW snapshot \in Seq(Entry), Len(snapshot) = index
    PROVE  installSnapshot(rl, index, term, snapshot) \in LogType
    BY SMTT(60), CutAtType, LogFields DEF installSnapshot

-----------------------------------------------------------------------------
(* What a critical section may do. *)

Good(rf) == rf \in Peer /\ Saved(rf) /\ ProbesInLog(rf)

Evolves(rf, f) ==
    /\ f.currentTerm >= rf.currentTerm
    /\ f.currentTerm = rf.currentTerm =>
          /\ rf.votedFor # Nil => f.votedFor = rf.votedFor
          /\ rf.role # Candidate => f.role # Candidate
          /\ f.role = Leader =>
                \/ rf.role = Candidate
                \/ rf.role = Leader /\ lastIndex(rf.log) <= lastIndex(f.log)

\* What all but elections keep: a peer that is still candidate or leader is
\* so in the same term and with the same votes.
Quiet(rf, f) ==
    f.role # Follower =>
        /\ f.role = rf.role /\ f.currentTerm = rf.currentTerm /\ f.votedFor = rf.votedFor
        /\ f.votes = rf.votes

\* f differs from rf at most in fields no invariant of a peer mentions.
Same(rf, f) ==
    /\ f.role = rf.role /\ f.currentTerm = rf.currentTerm /\ f.votedFor = rf.votedFor
    /\ f.log = rf.log

\* The assignments of the handlers that are not functions in the code.
Counting(rf, electing, votes) == [rf EXCEPT !.electing = electing, !.votes = votes]
Relogged(rf, log) == persist([rf EXCEPT !.log = log])
Committing(rf, n, pending) == [rf EXCEPT !.commitIndex = n, !.snapPending = pending]
Heard(rf, term) == IF term > rf.currentTerm THEN becomeFollower(rf, term) ELSE rf
Counted(rf, j) == [rf EXCEPT !.votes = @ \cup {j}]
Tallied(rf, j) ==
    IF IsMajority(Counted(rf, j).votes) THEN becomeLeader(Counted(rf, j)) ELSE Counted(rf, j)
Progress(rf, p, match, next) == [rf EXCEPT !.matchIndex[p] = match, !.nextIndex[p] = next]

-----------------------------------------------------------------------------
(* The operations on the struct. *)

\* The fields of a peer have the types of the Go declarations.
LEMMA PeerFields ==
    ASSUME NEW rf \in Peer
    PROVE  /\ rf.role \in {Follower, Candidate, Leader}
           /\ rf.currentTerm \in Nat
           /\ rf.votedFor \in Server \cup {Nil}
           /\ rf.log \in LogType
           /\ rf.nextIndex \in [Server -> Nat]
           /\ rf.matchIndex \in [Server -> Nat]
           /\ rf.commitIndex \in Nat
           /\ rf.snapPending \in BOOLEAN
           /\ rf.electing \in SUBSET Nat
           /\ rf.votes \in SUBSET Server
           /\ rf.epoch \in Nat
           /\ rf.disk \in Disk
    BY DEF Peer, Term

\* The three roles differ.
LEMMA Roles == Follower # Candidate /\ Candidate # Leader /\ Follower # Leader
    BY DEF Follower, Candidate, Leader

\* persistLocked writes the disk and nothing else.
LEMMA PersistFacts ==
    ASSUME NEW rf \in Peer
    PROVE  /\ persist(rf) \in Peer
           /\ Saved(persist(rf))
           /\ persist(rf).role = rf.role
           /\ persist(rf).currentTerm = rf.currentTerm
           /\ persist(rf).votedFor = rf.votedFor
           /\ persist(rf).log = rf.log
           /\ persist(rf).nextIndex = rf.nextIndex
           /\ persist(rf).matchIndex = rf.matchIndex
           /\ persist(rf).commitIndex = rf.commitIndex
           /\ persist(rf).electing = rf.electing
           /\ persist(rf).votes = rf.votes
           /\ persist(rf).epoch = rf.epoch
<1>1. [currentTerm |-> rf.currentTerm, votedFor |-> rf.votedFor, log |-> rf.log] \in Disk
  BY PeerFields DEF Disk, Term
<1>2. persist(rf) \in Peer
  BY <1>1 DEF persist, Peer
<1>3. QED
  BY Zenon, <1>2 DEF persist, Saved, Peer

\* A step that changes nothing.
LEMMA Stays ==
    ASSUME NEW rf \in Peer
    PROVE  Evolves(rf, rf)
    BY PeerFields, SizeType DEF Evolves

\* becomeFollowerLocked never goes back to an earlier term and keeps a vote
\* of the current term; it saves whatever it changes of the disk's fields.
LEMMA BecomeFollowerFacts ==
    ASSUME NEW rf, Good(rf), NEW term \in Nat
    PROVE  LET f == becomeFollower(rf, term) IN
           /\ Good(f)
           /\ Evolves(rf, f)
           /\ f.log = rf.log
           /\ f.votes = rf.votes
           /\ term < rf.currentTerm => f = rf
           /\ term >= rf.currentTerm => f.role = Follower /\ f.currentTerm = term
           /\ term > rf.currentTerm => f.votedFor = Nil
           /\ Quiet(rf, f)
<1> DEFINE f == [rf EXCEPT !.role = Follower,
                           !.currentTerm = term,
                           !.votedFor = IF term > rf.currentTerm THEN Nil ELSE @]
<1>1. rf \in Peer /\ Saved(rf) /\ rf.currentTerm \in Nat /\ rf.log \in LogType
      /\ rf.votedFor \in Server \cup {Nil}
  BY PeerFields DEF Good
<1>2. f \in Peer
  BY Zenon, <1>1 DEF Peer, Term
<1>3. /\ f.role = Follower /\ f.currentTerm = term /\ f.log = rf.log /\ f.votes = rf.votes
      /\ f.votedFor = (IF term > rf.currentTerm THEN Nil ELSE rf.votedFor)
      /\ f.disk = rf.disk
  BY <1>1 DEF Peer
<1>4. becomeFollower(rf, term) =
        IF term < rf.currentTerm THEN rf
        ELSE IF term # rf.currentTerm THEN persist(f) ELSE f
  BY DEF becomeFollower
<1> HIDE DEF f
<1>5. CASE term < rf.currentTerm
  BY <1>1, <1>4, <1>5, Stays DEF Quiet
<1>6. CASE term > rf.currentTerm
  <2>1. becomeFollower(rf, term) = persist(f)
    BY <1>1, <1>4, <1>6
  <2>2. QED
    BY <1>1, <1>2, <1>3, <1>6, <2>1, PersistFacts, Roles DEF Good, Evolves, ProbesInLog, Quiet
<1>7. CASE term = rf.currentTerm
  <2>1. becomeFollower(rf, term) = f
    BY <1>1, <1>4, <1>7
  <2>2. Saved(f)
    BY <1>1, <1>3, <1>7 DEF Saved
  <2>3. QED
    BY SMTT(60), <1>1, <1>2, <1>3, <1>7, <2>1, <2>2, Roles DEF Good, Evolves, ProbesInLog, Quiet
<1>8. QED
  BY SMTT(60), <1>1, <1>5, <1>6, <1>7

\* What two critical sections do, one after the other.
LEMMA EvolvesTransitive ==
    ASSUME NEW rf \in Peer, NEW f \in Peer, NEW g \in Peer, Evolves(rf, f), Evolves(f, g)
    PROVE  Evolves(rf, g)
<1>1. /\ rf.currentTerm \in Nat /\ f.currentTerm \in Nat /\ g.currentTerm \in Nat
      /\ lastIndex(rf.log) \in Nat /\ lastIndex(f.log) \in Nat /\ lastIndex(g.log) \in Nat
  BY PeerFields, SizeType
<1>2. QED
  BY <1>1, Roles DEF Evolves

\* A change of other fields.
LEMMA SameEvolves ==
    ASSUME NEW rf \in Peer, NEW f, Same(rf, f)
    PROVE  Evolves(rf, f)
    BY PeerFields, SizeType DEF Evolves, Same

\* A change of other fields is quiet.
LEMMA SameQuiet ==
    ASSUME NEW rf, NEW f, Same(rf, f), f.votes = rf.votes
    PROVE  Quiet(rf, f)
    BY DEF Quiet, Same

\* becomeCandidateLocked enters the next term and votes for itself there.
LEMMA BecomeCandidateFacts ==
    ASSUME NEW rf, Good(rf), NEW me \in Server
    PROVE  LET f == becomeCandidate(rf, me) IN
           /\ Good(f)
           /\ Evolves(rf, f)
           /\ f.role = Candidate
           /\ f.currentTerm = rf.currentTerm + 1
           /\ f.votedFor = me
           /\ f.electing = rf.electing
<1> DEFINE t == rf.currentTerm + 1
           f == [rf EXCEPT !.role = Candidate, !.currentTerm = t, !.votedFor = me]
<1>1. rf \in Peer /\ rf.currentTerm \in Nat /\ t \in Nat
  BY PeerFields DEF Good
<1>4. becomeCandidate(rf, me) = persist(f)
  BY DEF becomeCandidate
<1> HIDE DEF t
<1>2. f \in Peer
  BY Zenon, <1>1 DEF Peer, Term
<1>3. f.role = Candidate /\ f.currentTerm = t /\ f.votedFor = me /\ f.electing = rf.electing
  BY <1>1 DEF Peer
<1> HIDE DEF f
<1>5. QED
  BY <1>1, <1>2, <1>3, <1>4, PersistFacts, Roles DEF Good, Evolves, ProbesInLog, t

\* becomeLeaderLocked probes every peer from the end of its own log.
LEMMA BecomeLeaderFacts ==
    ASSUME NEW rf, Good(rf), rf.role = Candidate
    PROVE  LET f == becomeLeader(rf) IN
           /\ Good(f)
           /\ Evolves(rf, f)
           /\ f.role = Leader
           /\ f.currentTerm = rf.currentTerm
           /\ f.votedFor = rf.votedFor
           /\ f.votes = rf.votes
<1> DEFINE f == becomeLeader(rf)
<1>1. rf \in Peer /\ Saved(rf) /\ rf.currentTerm \in Nat /\ size(rf.log) \in Nat
  BY PeerFields, SizeType DEF Good
<1>2. f \in Peer
  BY Zenon, <1>1 DEF becomeLeader, Peer
<1>3. /\ f.role = Leader /\ f.currentTerm = rf.currentTerm /\ f.votedFor = rf.votedFor
      /\ f.votes = rf.votes /\ f.log = rf.log /\ f.disk = rf.disk
      /\ f.nextIndex = [p \in Server |-> size(rf.log)]
  BY <1>1 DEF becomeLeader, Peer
<1> HIDE DEF f
<1>4. Saved(f)
  BY <1>1, <1>3 DEF Saved
<1>5. ProbesInLog(f)
  BY <1>1, <1>3 DEF ProbesInLog
<1>6. Evolves(rf, f)
  BY <1>1, <1>3, Roles DEF Evolves
<1>7. QED
  BY <1>2, <1>3, <1>4, <1>5, <1>6 DEF Good, f

\* What startElection and the replies to RequestVote count.
LEMMA VotesFacts ==
    ASSUME NEW rf, Good(rf), NEW electing \in SUBSET Nat, NEW votes \in SUBSET Server
    PROVE  LET f == Counting(rf, electing, votes) IN
           Good(f) /\ Same(rf, f) /\ f.votes = votes
<1> DEFINE f == Counting(rf, electing, votes)
<1>1. rf \in Peer /\ Saved(rf) /\ ProbesInLog(rf)
  BY DEF Good
<1>2. f \in Peer
  BY Zenon, <1>1 DEF Peer, Term, Counting
<1>3. Same(rf, f) /\ f.votes = votes /\ f.nextIndex = rf.nextIndex /\ f.disk = rf.disk
  BY <1>1 DEF Peer, Same, Counting
<1> HIDE DEF f
<1>4. Good(f)
  BY <1>1, <1>2, <1>3 DEF Good, Same, Saved, ProbesInLog
<1>5. QED
  BY <1>3, <1>4 DEF f

\* A vote that is cast while there was none, and saved.
LEMMA GrantFacts ==
    ASSUME NEW rf, Good(rf), rf.votedFor = Nil, NEW candidate \in Server
    PROVE  LET f == grant(rf, candidate) IN
           /\ Good(f)
           /\ Evolves(rf, f)
           /\ f.role = rf.role
           /\ f.currentTerm = rf.currentTerm
           /\ f.votedFor = candidate
           /\ f.votes = rf.votes
<1> DEFINE f == [rf EXCEPT !.votedFor = candidate]
<1>1. rf \in Peer /\ rf.currentTerm \in Nat /\ rf.log \in LogType /\ ProbesInLog(rf)
  BY PeerFields DEF Good
<1>2. f \in Peer
  BY <1>1 DEF Peer
<1>3. /\ f.role = rf.role /\ f.currentTerm = rf.currentTerm /\ f.votedFor = candidate
      /\ f.log = rf.log /\ f.votes = rf.votes /\ f.nextIndex = rf.nextIndex
  BY <1>1 DEF Peer
<1>4. grant(rf, candidate) = persist(f)
  BY DEF grant
<1> HIDE DEF f
<1> DEFINE g == persist(f)
<1>5. /\ g \in Peer /\ Saved(g) /\ g.role = rf.role /\ g.currentTerm = rf.currentTerm
      /\ g.votedFor = candidate /\ g.log = rf.log /\ g.votes = rf.votes
      /\ g.nextIndex = rf.nextIndex
  BY <1>2, <1>3, PersistFacts
<1> HIDE DEF g
<1>6. ProbesInLog(g)
  BY <1>1, <1>5 DEF ProbesInLog
<1>7. Evolves(rf, g)
  BY <1>1, <1>5, SizeType DEF Evolves
<1>8. QED
  BY <1>4, <1>5, <1>6, <1>7 DEF Good, g

\* A log that replaces the peer's and is saved: a leader's may only get longer.
LEMMA RelogFacts ==
    ASSUME NEW rf, Good(rf), NEW log \in LogType,
           rf.role = Leader => lastIndex(rf.log) <= lastIndex(log)
    PROVE  LET f == Relogged(rf, log) IN
           /\ Good(f)
           /\ Evolves(rf, f)
           /\ f.role = rf.role /\ f.currentTerm = rf.currentTerm /\ f.votedFor = rf.votedFor
           /\ f.log = log /\ f.votes = rf.votes /\ f.commitIndex = rf.commitIndex
<1> DEFINE f == [rf EXCEPT !.log = log]
<1>1. rf \in Peer /\ rf.currentTerm \in Nat /\ rf.log \in LogType /\ ProbesInLog(rf)
      /\ rf.nextIndex \in [Server -> Nat]
  BY PeerFields DEF Good
<1>2. f \in Peer
  BY <1>1 DEF Peer
<1>3. /\ f.role = rf.role /\ f.currentTerm = rf.currentTerm /\ f.votedFor = rf.votedFor
      /\ f.log = log /\ f.votes = rf.votes /\ f.nextIndex = rf.nextIndex
      /\ f.commitIndex = rf.commitIndex
  BY <1>1 DEF Peer
<1> HIDE DEF f
<1> DEFINE g == persist(f)
<1>4. /\ g \in Peer /\ Saved(g) /\ g.role = rf.role /\ g.currentTerm = rf.currentTerm
      /\ g.votedFor = rf.votedFor /\ g.log = log /\ g.votes = rf.votes
      /\ g.nextIndex = rf.nextIndex /\ g.commitIndex = rf.commitIndex
  BY <1>2, <1>3, PersistFacts
<1> HIDE DEF g
<1>5. ProbesInLog(g)
  <2>1. rf.role = Leader => size(rf.log) <= size(log)
    BY <1>1, SizeType
  <2>2. size(rf.log) \in Nat /\ size(log) \in Nat
    BY <1>1, SizeType
  <2>3. QED
    BY <1>1, <1>4, <2>1, <2>2 DEF ProbesInLog
<1>6. Evolves(rf, g)
  BY <1>1, <1>4 DEF Evolves
<1>7. QED
  BY <1>4, <1>5, <1>6 DEF Good, g, f, Relogged

\* commitIndex and snapPending, which are not saved.
LEMMA CommitFacts ==
    ASSUME NEW rf, Good(rf), NEW n \in Nat, NEW b \in BOOLEAN
    PROVE  LET f == Committing(rf, n, b) IN
           Good(f) /\ Same(rf, f) /\ f.votes = rf.votes
<1> DEFINE f == Committing(rf, n, b)
<1>1. rf \in Peer /\ Saved(rf) /\ ProbesInLog(rf)
  BY DEF Good
<1>2. f \in Peer
  BY Zenon, <1>1 DEF Peer, Committing
<1>3. Same(rf, f) /\ f.votes = rf.votes /\ f.nextIndex = rf.nextIndex /\ f.disk = rf.disk
  BY <1>1 DEF Peer, Same, Committing
<1> HIDE DEF f
<1>4. Good(f)
  BY <1>1, <1>2, <1>3 DEF Good, Same, Saved, ProbesInLog
<1>5. QED
  BY <1>3, <1>4 DEF f

\* nextIndex and matchIndex of one peer; a leader stays inside its log.
LEMMA ProgressFacts ==
    ASSUME NEW rf, Good(rf), NEW p \in Server, NEW match \in Nat, NEW next \in Nat,
           rf.role = Leader => next <= size(rf.log)
    PROVE  LET f == Progress(rf, p, match, next) IN
           Good(f) /\ Same(rf, f) /\ f.votes = rf.votes /\ f.commitIndex = rf.commitIndex
<1> DEFINE f == Progress(rf, p, match, next)
<1>1. rf \in Peer /\ Saved(rf) /\ ProbesInLog(rf)
  BY DEF Good
<1>2. rf.nextIndex \in [Server -> Nat] /\ rf.matchIndex \in [Server -> Nat]
  BY <1>1, PeerFields
<1>3. f \in Peer
  BY Zenon, <1>1, <1>2 DEF Peer, Progress
<1>4. /\ Same(rf, f) /\ f.votes = rf.votes /\ f.commitIndex = rf.commitIndex /\ f.disk = rf.disk
      /\ f.nextIndex = [rf.nextIndex EXCEPT ![p] = next]
  BY <1>1 DEF Peer, Same, Progress
<1> HIDE DEF f
<1>5. Saved(f)
  BY <1>1, <1>4 DEF Saved, Same
<1>6. ProbesInLog(f)
  BY <1>1, <1>2, <1>4 DEF ProbesInLog, Same
<1>7. QED
  BY <1>3, <1>4, <1>5, <1>6 DEF Good, f

\* What getMajorityIndexLocked returns is one of the matchIndexes.
LEMMA MajorityIndexType ==
    ASSUME NEW rf \in Peer
    PROVE  majorityIndex(rf) \in Nat
<1> DEFINE all == {rf.matchIndex[p] : p \in Server}
           reached(n) == {p \in Server : rf.matchIndex[p] >= n}
           S == {n \in all : IsMajority(reached(n))}
<1>1. rf.matchIndex \in [Server -> Nat]
  BY PeerFields
<1>2. all \in SUBSET Nat /\ all # {}
  BY <1>1, ServerAssumption
<1>3. PICK low \in all : \A n \in all : low <= n
  BY Zenon, <1>2, MinExists
<1>4. reached(low) = Server
  BY <1>1, <1>3
<1>5. IsMajority(Server)
  <2>1. Cardinality(Server) \in Nat /\ Cardinality(Server) # 0
    BY ServerAssumption, FS_CardinalityType, FS_EmptySet
  <2>2. QED
    BY <2>1 DEF IsMajority
<1>6. low \in S
  BY <1>3, <1>4, <1>5
<1>7. IsFiniteSet(all)
  <2>1. rf.matchIndex \in Surjection(Server, all)
    BY <1>1 DEF Surjection
  <2>2. QED
    BY <2>1, ServerAssumption, FS_Surjection
<1>8. S \in SUBSET Nat /\ IsFiniteSet(S)
  BY Zenon, <1>2, <1>7, FS_Subset
<1>9. majorityIndex(rf) = Max(S)
  BY DEF majorityIndex
<1> HIDE DEF S
<1>10. QED
  BY Zenon, <1>6, <1>8, <1>9, MaxType

\* An acknowledged AppendEntries moves indices only; the new nextIndex is
\* inside the log when what the request carried is.
LEMMA AcknowledgeFacts ==
    ASSUME NEW rf, Good(rf), NEW p \in Server, NEW match \in Nat, match <= lastIndex(rf.log)
    PROVE  LET f == acknowledge(rf, p, match) IN
           Good(f) /\ Same(rf, f) /\ f.votes = rf.votes
<1> DEFINE f == Progress(rf, p, match, match + 1)
           n == majorityIndex(f)
           g == [f EXCEPT !.commitIndex = n]
<1>1. rf \in Peer /\ match + 1 \in Nat /\ match + 1 <= size(rf.log)
  BY PeerFields, SizeType DEF Good
<1>2. Good(f) /\ Same(rf, f) /\ f.votes = rf.votes
  BY <1>1, ProgressFacts
<1>3. acknowledge(rf, p, match) \in {f, g}
  BY DEF acknowledge, Progress
<1> HIDE DEF f
<1>4. f \in Peer /\ n \in Nat /\ f.snapPending \in BOOLEAN
  BY <1>2, MajorityIndexType, PeerFields DEF Good
<1>5. g = Committing(f, n, f.snapPending)
  BY Zenon, <1>4 DEF Peer, Committing
<1> HIDE DEF n
<1> HIDE DEF g
<1>6. Good(g) /\ Same(f, g) /\ g.votes = f.votes
  BY <1>2, <1>4, <1>5, CommitFacts
<1>7. QED
  BY <1>2, <1>3, <1>6 DEF Same

\* A conflict moves nextIndex back or leaves it.
LEMMA BackOffFacts ==
    ASSUME NEW rf, Good(rf), NEW p \in Server, NEW clash \in Nat \X Nat
    PROVE  LET f == backOff(rf, p, clash) IN
           Good(f) /\ Same(rf, f) /\ f.votes = rf.votes
<1> DEFINE first == firstFor(rf.log, clash[1])
           probe == IF clash[1] = InvalidTerm \/ first = InvalidIndex THEN clash[2] ELSE first
           next == Min({rf.nextIndex[p], probe})
<1>1. rf \in Peer /\ rf.log \in LogType /\ rf.nextIndex \in [Server -> Nat]
      /\ rf.matchIndex \in [Server -> Nat] /\ ProbesInLog(rf)
  BY PeerFields DEF Good
<1>2. first \in Nat
  BY <1>1, FirstForType
<1>3. backOff(rf, p, clash) = [rf EXCEPT !.nextIndex[p] = next]
  BY DEF backOff
<1> HIDE DEF first
<1>4. probe \in Nat
  BY <1>2
<1> HIDE DEF probe
<1>5. next \in Nat /\ next <= rf.nextIndex[p]
  BY <1>1, <1>4, MinPair
<1> HIDE DEF next
<1>6. rf.role = Leader => next <= size(rf.log)
  <2>1. size(rf.log) \in Nat
    BY Zenon, <1>1, SizeType
  <2>2. QED
    BY <1>1, <1>5, <2>1 DEF ProbesInLog
<1>7. [rf EXCEPT !.nextIndex[p] = next] = Progress(rf, p, rf.matchIndex[p], next)
  BY Zenon, <1>1 DEF Peer, Progress
<1>8. rf.matchIndex[p] \in Nat
  BY <1>1
<1>9. QED
  BY <1>3, <1>5, <1>6, <1>7, <1>8, ProgressFacts

-----------------------------------------------------------------------------
(* Messages. *)

AnyRequest == RequestType("RequestVote", VoteArgs) \cup RequestType("AppendEntries", AppendArgs)
                  \cup RequestType("InstallSnapshot", SnapshotArgs)

AnyReply == ReplyType("RequestVote", VoteArgs, VoteBody)
                \cup ReplyType("AppendEntries", AppendArgs, AppendBody)
                \cup ReplyType("InstallSnapshot", SnapshotArgs, [Term : Term])

\* The fields of a request.
LEMMA RequestFields ==
    ASSUME NEW m \in AnyRequest
    PROVE  /\ m.from \in Server /\ m.to \in Server /\ m.epoch \in Nat
           /\ m.type \in {"RequestVote", "AppendEntries", "InstallSnapshot"}
           /\ m.type = "RequestVote" => m.args \in VoteArgs
           /\ m.type = "AppendEntries" => m.args \in AppendArgs
           /\ m.type = "InstallSnapshot" => m.args \in SnapshotArgs
           /\ m.args.Term \in Nat
    BY Zenon DEF AnyRequest, RequestType, VoteArgs, AppendArgs, SnapshotArgs, Term

\* The fields of a reply.
LEMMA ReplyFields ==
    ASSUME NEW r \in AnyReply
    PROVE  /\ r.from \in Server /\ r.to \in Server /\ r.epoch \in Nat
           /\ r.type \in {"RequestVote", "AppendEntries", "InstallSnapshot"}
           /\ r.type = "RequestVote" => r.args \in VoteArgs /\ r.body \in VoteBody
           /\ r.type = "AppendEntries" => r.args \in AppendArgs /\ r.body \in AppendBody
           /\ r.type = "InstallSnapshot" => r.args \in SnapshotArgs
           /\ r.args.Term \in Nat
           /\ r.body.Term \in Nat
    BY Zenon DEF AnyReply, ReplyType, VoteArgs, AppendArgs, SnapshotArgs, VoteBody, AppendBody, Term

\* A message that replicates carries the log up to some index.
LEMMA CarriedType ==
    ASSUME NEW m, m.type = "AppendEntries" => m.args \in AppendArgs,
           m.type = "InstallSnapshot" => m.args \in SnapshotArgs, Replicates(m)
    PROVE  Carried(m) \in Nat
<1>1. CASE m.type = "AppendEntries"
  <2>1. m.args.PrevLogIndex \in Nat /\ m.args.Entries \in Seq(Entry)
    BY <1>1 DEF AppendArgs
  <2>2. Len(m.args.Entries) \in Nat
    BY <2>1, LenProperties
  <2>3. QED
    BY <1>1, <2>1, <2>2 DEF Carried
<1>2. CASE m.type = "InstallSnapshot"
  BY <1>2 DEF Carried, SnapshotArgs
<1>3. QED
  BY <1>1, <1>2 DEF Replicates

\* The network invents nothing.
LEMMA DeliverableSubset ==
    ASSUME NEW kind, NEW old, NEW new
    PROVE  Deliverable(kind, old, new) \subseteq old \cup new
    BY DEF Deliverable

\* What a sender keeps of a message it keeps through every critical section.
LEMMA SentByStable ==
    ASSUME NEW m, NEW l, peer[l] \in Peer, peer'[l] \in Peer, Evolves(peer[l], peer'[l]),
           m.args.Term \in Nat, Replicates(m) => Carried(m) \in Nat, SentBy(m, l)
    PROVE  SentBy(m, l)'
<1>1. /\ peer[l].currentTerm \in Nat /\ peer'[l].currentTerm \in Nat
      /\ lastIndex(peer[l].log) \in Nat /\ lastIndex(peer'[l].log) \in Nat
  BY Zenon, PeerFields, SizeType
<1>2. QED
  BY <1>1 DEF SentBy, Evolves

\* The part all actions share.  One peer is changed, and messages are added.
LEMMA Frame ==
    ASSUME TypeInv, NEW j \in Server, NEW f, peer' = [peer EXCEPT ![j] = f],
           Good(f), Evolves(peer[j], f),
           NEW A, requests' \subseteq requests \cup A,
           \A m \in A : m \in AnyRequest /\ SentBy(m, m.from),
           NEW B, replies' \subseteq replies \cup B,
           \A r \in B : r \in AnyReply /\ SentBy(r, r.to)
    PROVE  TypeInv' /\ \A i \in Server : Evolves(peer[i], peer'[i])
<1>1. /\ peer \in [Server -> Peer] /\ requests \subseteq AnyRequest /\ replies \subseteq AnyReply
      /\ \A i \in Server : Good(peer[i])
  BY Zenon DEF TypeInv, TypeOK, AnyRequest, AnyReply, Durable, IndexInv, Good
<1>2. \A i \in Server : Good(peer'[i]) /\ Evolves(peer[i], peer'[i])
  <2>1. TAKE i \in Server
  <2>2. CASE i = j
    BY <1>1, <2>2
  <2>3. CASE i # j
    BY SMTT(60), <1>1, <2>3, Stays DEF Good
  <2>4. QED
    BY <2>2, <2>3
<1>3. peer' \in [Server -> Peer]
  BY <1>1 DEF Good
<1>4. requests' \subseteq AnyRequest /\ replies' \subseteq AnyReply
  BY <1>1
<1>5. \A m \in requests' : SentBy(m, m.from)'
  <2>1. TAKE m \in requests'
  <2>2. m \in AnyRequest /\ SentBy(m, m.from)
    BY <1>1 DEF TypeInv, IndexInv
  <2>3. m.from \in Server /\ m.args.Term \in Nat /\ (Replicates(m) => Carried(m) \in Nat)
    BY Zenon, <2>2, RequestFields, CarriedType
  <2>4. QED
    BY Zenon, <1>1, <1>2, <1>3, <2>2, <2>3, SentByStable
<1>6. \A r \in replies' : SentBy(r, r.to)'
  <2>1. TAKE r \in replies'
  <2>2. r \in AnyReply /\ SentBy(r, r.to)
    BY <1>1 DEF TypeInv, IndexInv
  <2>3. r.to \in Server /\ r.args.Term \in Nat /\ (Replicates(r) => Carried(r) \in Nat)
    BY <2>2, ReplyFields, CarriedType
  <2>4. QED
    BY Zenon, <1>1, <1>2, <1>3, <2>2, <2>3, SentByStable
<1>7. QED
  BY Zenon, <1>2, <1>3, <1>4, <1>5, <1>6
     DEF TypeInv, TypeOK, AnyRequest, AnyReply, Durable, IndexInv, Good

\* The same where the network is left alone or only loses messages.
LEMMA FramePeer ==
    ASSUME TypeInv, NEW j \in Server, NEW f, peer' = [peer EXCEPT ![j] = f],
           Good(f), Evolves(peer[j], f),
           requests' \subseteq requests, replies' \subseteq replies
    PROVE  TypeInv' /\ \A i \in Server : Evolves(peer[i], peer'[i])
<1> DEFINE none == {}
<1>1. requests' \subseteq requests \cup none /\ replies' \subseteq replies \cup none
  OBVIOUS
<1>2. \A m \in none : m \in AnyRequest /\ SentBy(m, m.from)
  OBVIOUS
<1>3. \A r \in none : r \in AnyReply /\ SentBy(r, r.to)
  OBVIOUS
<1> HIDE DEF none
<1>4. QED
  BY Zenon, <1>1, <1>2, <1>3, Frame

-----------------------------------------------------------------------------
(* The actions. *)

Sound == TypeInv' /\ \A i \in Server : Evolves(peer[i], peer'[i])

\* The steps that have nothing to do with elections.
Quietly ==
    /\ \A i \in Server : Quiet(peer[i], peer'[i])
    /\ \A r \in replies' : r.type = "RequestVote" => r \in replies

\* One peer is changed quietly, and no RequestVote is answered.
LEMMA QuietFrame ==
    ASSUME TypeInv, NEW j \in Server, NEW f, peer' = [peer EXCEPT ![j] = f], Quiet(peer[j], f),
           \A r \in replies' : r.type = "RequestVote" => r \in replies
    PROVE  Quietly
<1>1. peer \in [Server -> Peer]
  BY DEF TypeInv, TypeOK
<1>2. \A i \in Server : Quiet(peer[i], peer'[i])
  <2>1. TAKE i \in Server
  <2>2. CASE i = j
    BY <1>1, <2>2
  <2>3. CASE i # j
    BY <1>1, <2>3 DEF Quiet
  <2>4. QED
    BY <2>2, <2>3
<1>3. QED
  BY <1>2 DEF Quietly

\* What TypeInv says of one peer and one message.
LEMMA Instances ==
    ASSUME TypeInv
    PROVE  /\ peer \in [Server -> Peer]
           /\ \A i \in Server : Good(peer[i])
           /\ \A m \in requests : m \in AnyRequest /\ SentBy(m, m.from)
           /\ \A r \in replies : r \in AnyReply /\ SentBy(r, r.to)
    BY Zenon DEF TypeInv, TypeOK, AnyRequest, AnyReply, Durable, IndexInv, Good

\* electionTicker.
LEMMA ElectionTickerStep ==
    ASSUME TypeInv, NEW i \in Server, electionTicker(i)
    PROVE  Sound
<1> DEFINE rf == becomeCandidate(peer[i], i)
           e == rf.electing \cup {rf.currentTerm}
           f == Counting(rf, e, {})
<1>1. Good(peer[i])
  BY Instances
<1>2. Good(rf) /\ Evolves(peer[i], rf)
  BY <1>1, BecomeCandidateFacts
<1>3. peer' = [peer EXCEPT ![i] = f] /\ requests' = requests /\ replies' = replies
  BY DEF electionTicker, Counting
<1> HIDE DEF rf
<1>4. e \in SUBSET Nat
  BY <1>2, PeerFields DEF Good
<1> HIDE DEF e
<1>5. Good(f) /\ Same(rf, f)
  BY <1>2, <1>4, VotesFacts
<1> HIDE DEF f
<1>6. Evolves(peer[i], f)
  BY <1>1, <1>2, <1>5, SameEvolves, EvolvesTransitive DEF Good
<1>7. QED
  BY Zenon, <1>3, <1>5, <1>6, FramePeer DEF Sound

\* startElection, abandoned or not.
LEMMA StartElectionStep ==
    ASSUME TypeInv, NEW i \in Server, NEW term \in peer[i].electing, startElection(i, term)
    PROVE  Sound
<1> DEFINE e == peer[i].electing \ {term}
           rf == [peer[i] EXCEPT !.electing = e]
           v == IF contextLost(rf, Candidate, term) THEN peer[i].votes ELSE {i}
           f == Counting(peer[i], e, v)
           args == [Term |-> rf.currentTerm,
                    LastLogIndex |-> lastIndex(rf.log), LastLogTerm |-> lastTerm(rf.log)]
           A == {Request(i, p, "RequestVote", args) : p \in Server \ {i}}
           B == {}
<1>1. Good(peer[i]) /\ peer[i] \in Peer
  BY Instances DEF Good
<1>2. e \in SUBSET Nat /\ v \in SUBSET Server
  BY <1>1, PeerFields
<1>3. peer' = [peer EXCEPT ![i] = f]
  BY Zenon, <1>1 DEF startElection, Counting, Peer
<1>4. requests' \subseteq requests \cup A /\ replies' \subseteq replies \cup B
  <2> HIDE DEF A
  <2>1. requests' = requests \/ requests' = Deliverable("requests", requests, A)
    BY DEF startElection, Send, A
  <2>2. QED
    BY Zenon, <2>1, DeliverableSubset DEF startElection
<1>5. args \in VoteArgs
  <2>1. rf.currentTerm \in Nat /\ rf.log \in LogType
    BY Zenon, <1>1, PeerFields DEF Peer
  <2> HIDE DEF rf
  <2>2. lastIndex(rf.log) \in Nat /\ lastTerm(rf.log) \in Nat
    BY <2>1, SizeType, LastTermType
  <2>3. QED
    BY <2>1, <2>2 DEF VoteArgs, Term
<1> HIDE DEF args, v, e
<1>6. \A m \in A : m \in AnyRequest /\ SentBy(m, m.from)
  <2>1. TAKE m \in A
  <2>2. PICK p \in Server \ {i} : m = Request(i, p, "RequestVote", args)
    OBVIOUS
  <2>3. peer[i].epoch \in Nat
    BY <1>1, PeerFields
  <2>4. m \in RequestType("RequestVote", VoteArgs) /\ m.type = "RequestVote"
    BY <1>5, <2>2, <2>3 DEF Request, RequestType
  <2>5. QED
    BY <2>4 DEF AnyRequest, SentBy, Replicates
<1>7. Good(f) /\ Same(peer[i], f)
  BY <1>1, <1>2, VotesFacts
<1> HIDE DEF f, A
<1>8. Evolves(peer[i], f)
  BY <1>1, <1>7, SameEvolves
<1>9. \A r \in B : r \in AnyReply /\ SentBy(r, r.to)
  OBVIOUS
<1> HIDE DEF B
<1>10. QED
  BY Zenon, <1>3, <1>4, <1>6, <1>7, <1>8, <1>9, Frame DEF Sound

\* The reply to a request has the request's type, arguments and sender.
LEMMA ReplySent ==
    ASSUME TypeInv, NEW m \in requests, NEW body, Reply(m, body),
           m.type = "RequestVote" => body \in VoteBody,
           m.type = "AppendEntries" => body \in AppendBody,
           m.type = "InstallSnapshot" => body \in [Term : Term]
    PROVE  \E r : /\ r.type = m.type /\ r.from = m.to /\ r.to = m.from
                  /\ r.args = m.args /\ r.body = body
                  /\ replies' \subseteq replies \cup {r}
                  /\ r \in AnyReply /\ SentBy(r, r.to)
<1> DEFINE r == [type |-> m.type, from |-> m.to, to |-> m.from, epoch |-> m.epoch,
                 args |-> m.args, body |-> body]
<1>1. m \in AnyRequest /\ SentBy(m, m.from)
  BY Instances
<1>2. r \in AnyReply
  BY <1>1, RequestFields DEF AnyReply, ReplyType
<1>3. SentBy(r, r.to)
  BY <1>1 DEF SentBy, Replicates, Carried
<1>4. replies' \subseteq replies \cup {r}
  <2>1. replies' = Deliverable("replies", replies, {r})
    BY DEF Reply
  <2> HIDE DEF r
  <2>2. QED
    BY <2>1, DeliverableSubset
<1>5. r.type = m.type /\ r.from = m.to /\ r.to = m.from /\ r.args = m.args /\ r.body = body
  OBVIOUS
<1> HIDE DEF r
<1>6. QED
  BY <1>2, <1>3, <1>4, <1>5

\* The same where a request is answered.
LEMMA FrameReply ==
    ASSUME TypeInv, NEW j \in Server, NEW f, peer' = [peer EXCEPT ![j] = f],
           Good(f), Evolves(peer[j], f),
           requests' \subseteq requests,
           NEW r, replies' \subseteq replies \cup {r}, r \in AnyReply, SentBy(r, r.to)
    PROVE  Sound
<1> DEFINE none == {}
           B == {r}
<1>1. requests' \subseteq requests \cup none /\ replies' \subseteq replies \cup B
  OBVIOUS
<1>2. \A m \in none : m \in AnyRequest /\ SentBy(m, m.from)
  OBVIOUS
<1>3. \A q \in B : q \in AnyReply /\ SentBy(q, q.to)
  OBVIOUS
<1> HIDE DEF none, B
<1>4. QED
  BY Zenon, <1>1, <1>2, <1>3, Frame DEF Sound

\* A request or a reply from a later term makes the peer a follower there.
LEMMA HeardFacts ==
    ASSUME NEW rf, Good(rf), NEW term \in Nat
    PROVE  LET f == Heard(rf, term) IN
           /\ Good(f) /\ Evolves(rf, f) /\ f.votes = rf.votes
           /\ term > rf.currentTerm => f.role = Follower /\ f.currentTerm = term
           /\ ~(term > rf.currentTerm) => f = rf
<1>1. rf \in Peer /\ rf.currentTerm \in Nat
  BY PeerFields DEF Good
<1>2. CASE term > rf.currentTerm
  <2>1. Heard(rf, term) = becomeFollower(rf, term) /\ term >= rf.currentTerm
    BY <1>1, <1>2 DEF Heard
  <2>2. QED
    BY <1>2, <2>1, BecomeFollowerFacts
<1>3. CASE ~(term > rf.currentTerm)
  <2>1. Heard(rf, term) = rf
    BY <1>3 DEF Heard
  <2>2. QED
    BY <1>1, <1>3, <2>1, Stays
<1>4. QED
  BY <1>2, <1>3

\* RequestVote.
LEMMA RequestVoteStep ==
    ASSUME TypeInv, NEW m \in requests, RequestVote(m)
    PROVE  Sound
<1> DEFINE j == m.to
           old == peer[j].currentTerm
           rf == Heard(peer[j], m.args.Term)
           granted == /\ m.args.Term >= old
                      /\ rf.votedFor = Nil
                      /\ ~isMoreUpToDate(rf, m.args.LastLogIndex, m.args.LastLogTerm)
           f == IF granted THEN grant(rf, m.from) ELSE rf
           body == [Term |-> old, VoteGranted |-> granted]
<1>1. m \in AnyRequest /\ j \in Server /\ m.from \in Server
  BY Instances, RequestFields
<1>2. Good(peer[j]) /\ peer[j] \in Peer /\ old \in Nat
  BY <1>1, Instances, PeerFields DEF Good
<1>3. Good(rf) /\ Evolves(peer[j], rf)
  BY <1>1, <1>2, RequestFields, HeardFacts
<1>4. /\ m.type = "RequestVote"
      /\ peer' = [peer EXCEPT ![j] = f]
      /\ requests' = requests \ {m}
      /\ Reply(m, body)
  BY Zenon DEF RequestVote, Heard
<1>5. granted \in BOOLEAN
  OBVIOUS
<1>6. granted => rf.votedFor = Nil
  OBVIOUS
<1> HIDE DEF rf, granted
<1>7. Good(f) /\ Evolves(rf, f)
  <2>1. CASE granted
    BY <1>1, <1>3, <1>6, <2>1, GrantFacts
  <2>2. CASE ~granted
    BY Zenon, <1>3, <2>2, Stays DEF Good
  <2>3. QED
    BY <2>1, <2>2
<1> HIDE DEF f
<1>8. Evolves(peer[j], f)
  BY Zenon, <1>2, <1>3, <1>7, EvolvesTransitive DEF Good
<1>9. body \in VoteBody
  BY <1>2, <1>5 DEF VoteBody, Term
<1> HIDE DEF body
<1>10. PICK r : replies' \subseteq replies \cup {r} /\ r \in AnyReply /\ SentBy(r, r.to)
  BY <1>4, <1>9, ReplySent
<1>11. requests' \subseteq requests
  BY <1>4
<1> HIDE DEF j
<1>12. QED
  BY Zenon, <1>1, <1>4, <1>7, <1>8, <1>10, <1>11, FrameReply

\* What a counted vote does to the candidate: it leads with a majority only.
LEMMA TalliedFacts ==
    ASSUME NEW rf, Good(rf), NEW j \in Server, rf.role = Candidate
    PROVE  LET g == Tallied(rf, j) IN
           /\ Good(g) /\ Evolves(rf, g)
           /\ g.votes = rf.votes \cup {j}
           /\ g.currentTerm = rf.currentTerm /\ g.votedFor = rf.votedFor
           /\ g.role = Candidate \/ (g.role = Leader /\ IsMajority(g.votes))
<1> DEFINE v == rf.votes \cup {j}
           f == Counted(rf, j)
           g == becomeLeader(f)
<1>1. rf \in Peer /\ rf.electing \in SUBSET Nat /\ rf.votes \in SUBSET Server
  BY PeerFields DEF Good
<1>2. f = Counting(rf, rf.electing, v)
  BY Zenon, <1>1 DEF Counting, Counted, Peer
<1>3. v \in SUBSET Server
  BY <1>1
<1> HIDE DEF v, f
<1>4. Good(f) /\ Same(rf, f) /\ f.votes = v
  BY <1>1, <1>2, <1>3, VotesFacts
<1>5. Evolves(rf, f) /\ f.role = Candidate
  BY <1>1, <1>4, SameEvolves DEF Same
<1>6. /\ Good(g) /\ Evolves(f, g) /\ g.role = Leader /\ g.currentTerm = f.currentTerm
      /\ g.votedFor = f.votedFor /\ g.votes = f.votes
  BY <1>4, <1>5, BecomeLeaderFacts
<1> HIDE DEF g
<1>7. Evolves(rf, g)
  BY <1>1, <1>4, <1>5, <1>6, EvolvesTransitive DEF Good
<1>8. CASE IsMajority(v)
  <2>1. Tallied(rf, j) = g
    BY <1>4, <1>8 DEF Tallied, f, g
  <2>2. QED
    BY <1>4, <1>6, <1>7, <1>8, <2>1 DEF Same, v
<1>9. CASE ~IsMajority(v)
  <2>1. Tallied(rf, j) = f
    BY <1>4, <1>9 DEF Tallied, f
  <2>2. QED
    BY <1>4, <1>5, <2>1 DEF Same, v
<1>10. QED
  BY Zenon, <1>8, <1>9

\* The reply of RequestVote.
LEMMA RequestVoteReplyStep ==
    ASSUME TypeInv, NEW r \in replies, RequestVoteReply(r)
    PROVE  Sound
<1> DEFINE i == r.to
           rf == peer[i]
           g == Tallied(rf, r.from)
           f == IF r.body.Term > rf.currentTerm THEN becomeFollower(rf, r.body.Term)
                ELSE IF contextLost(rf, Candidate, r.args.Term) \/ ~r.body.VoteGranted THEN rf
                ELSE g
<1>1. i \in Server /\ r.from \in Server /\ r.body.Term \in Nat
  BY Instances, ReplyFields
<1>2. Good(rf) /\ rf \in Peer
  BY <1>1, Instances DEF Good
<1>3. peer' = [peer EXCEPT ![i] = f] /\ requests' = requests /\ replies' = replies \ {r}
  BY DEF RequestVoteReply, Tallied, Counted
<1>4. Good(f) /\ Evolves(rf, f)
  <2>1. CASE r.body.Term > rf.currentTerm
    BY Zenon, <1>1, <1>2, <2>1, BecomeFollowerFacts
  <2>2. CASE ~(r.body.Term > rf.currentTerm) /\ (contextLost(rf, Candidate, r.args.Term) \/ ~r.body.VoteGranted)
    BY Zenon, <1>2, <2>2, Stays
  <2>3. CASE ~(r.body.Term > rf.currentTerm) /\ ~(contextLost(rf, Candidate, r.args.Term) \/ ~r.body.VoteGranted)
    <3>1. rf.role = Candidate /\ f = g
      BY Zenon, <2>3 DEF contextLost
    <3> HIDE DEF f
    <3>2. Good(g) /\ Evolves(rf, g)
      BY Zenon, <1>1, <1>2, <3>1, TalliedFacts
    <3>3. QED
      BY <3>1, <3>2
  <2>4. QED
    BY Zenon, <2>1, <2>2, <2>3
<1> HIDE DEF f
<1>5. QED
  BY Zenon, <1>1, <1>3, <1>4, FramePeer DEF Sound

\* Start.
LEMMA StartStep ==
    ASSUME TypeInv, NEW i \in Server, NEW command \in Command, Start(i, command)
    PROVE  Sound /\ Quietly
<1> DEFINE rf == peer[i]
           e == [Term |-> rf.currentTerm, Command |-> command]
           log == append(rf.log, e)
           f == Relogged(rf, log)
<1>1. Good(rf) /\ rf \in Peer /\ rf.currentTerm \in Nat /\ rf.log \in LogType
  BY Instances, PeerFields DEF Good
<1>2. e \in Entry
  BY <1>1 DEF Entry
<1>3. peer' = [peer EXCEPT ![i] = f] /\ requests' = requests /\ replies' = replies
  BY DEF Start, Relogged
<1> HIDE DEF e
<1>4. log \in LogType /\ lastIndex(rf.log) <= lastIndex(log)
  <2>1. log \in LogType /\ lastIndex(log) = lastIndex(rf.log) + 1 /\ lastIndex(rf.log) \in Nat
    BY Zenon, <1>1, <1>2, AppendType, SizeType
  <2>2. QED
    BY <2>1
<1> HIDE DEF log
<1>5. Good(f) /\ Evolves(rf, f) /\ Quiet(rf, f)
  BY <1>1, <1>4, RelogFacts DEF Quiet
<1> HIDE DEF f
<1>6. QED
  BY Zenon, <1>3, <1>5, FramePeer, QuietFrame DEF Sound

\* What a leader sends fits its log: at does not panic on prevIdx, and the
\* request carries nothing behind the end of the log.
LEMMA ReplicateToFacts ==
    ASSUME TypeInv, NEW i \in Server, peer[i].role = Leader, NEW p \in Server
    PROVE  LET m == replicateTo(i, p) IN m \in AnyRequest /\ SentBy(m, m.from)
<1> DEFINE rf == peer[i]
           prevIdx == rf.nextIndex[p] - 1
           snap == [Term |-> rf.currentTerm,
                    LastIncludedIndex |-> rf.log.snapLastIdx,
                    LastIncludedTerm |-> rf.log.snapLastTerm,
                    Snapshot |-> rf.log.snapshot]
           entries == tail(rf.log, prevIdx + 1)
           args == [Term |-> rf.currentTerm,
                    PrevLogIndex |-> prevIdx,
                    PrevLogTerm |-> at(rf.log, prevIdx).Term,
                    Entries |-> entries,
                    LeaderCommit |-> rf.commitIndex]
<1>1. Good(rf) /\ rf \in Peer
  BY Instances DEF Good
<1>2. /\ rf.log \in LogType /\ rf.nextIndex \in [Server -> Nat] /\ rf.currentTerm \in Nat
      /\ rf.commitIndex \in Nat /\ rf.epoch \in Nat /\ rf.nextIndex[p] <= size(rf.log)
  BY <1>1, PeerFields DEF Good, ProbesInLog
<1>3. /\ rf.log.snapLastIdx \in Nat /\ rf.log.snapLastTerm \in Nat
      /\ rf.log.snapshot \in Seq(Entry) /\ Len(rf.log.snapshot) = rf.log.snapLastIdx
      /\ size(rf.log) \in Nat /\ lastIndex(rf.log) \in Nat /\ lastIndex(rf.log) + 1 = size(rf.log)
      /\ rf.log.snapLastIdx <= lastIndex(rf.log)
  BY Zenon, <1>2, LogFields, SizeType
<1>4. CASE prevIdx < rf.log.snapLastIdx
  <2> DEFINE m == Request(i, p, "InstallSnapshot", snap)
  <2>1. replicateTo(i, p) = m
    BY Zenon, <1>4 DEF replicateTo
  <2>2. snap \in SnapshotArgs /\ snap.Term = rf.currentTerm
        /\ snap.LastIncludedIndex = rf.log.snapLastIdx
    BY Zenon, <1>2, <1>3 DEF SnapshotArgs, Term
  <2> HIDE DEF snap
  <2>3. m \in RequestType("InstallSnapshot", SnapshotArgs) /\ m.from = i
        /\ m.type = "InstallSnapshot" /\ m.args = snap
    BY <1>2, <2>2 DEF Request, RequestType
  <2> HIDE DEF m
  <2>4. SentBy(m, i)
    BY <1>2, <1>3, <2>2, <2>3, Roles, SMTT(30) DEF SentBy, Carried
  <2>5. QED
    BY <2>1, <2>3, <2>4 DEF AnyRequest
<1>5. CASE ~(prevIdx < rf.log.snapLastIdx)
  <2> DEFINE m == Request(i, p, "AppendEntries", args)
  <2>1. replicateTo(i, p) = m
    BY Zenon, <1>5 DEF replicateTo
  <2>2. prevIdx \in Nat /\ InRange(rf.log, prevIdx)
    <3> DEFINE n == rf.nextIndex[p]
               low == rf.log.snapLastIdx
               high == size(rf.log)
    <3>1. n \in Nat /\ low \in Nat /\ high \in Nat /\ n <= high /\ ~(n - 1 < low)
      BY Zenon, <1>2, <1>3, <1>5
    <3> HIDE DEF n, low, high
    <3>2. n - 1 \in Nat /\ low <= n - 1 /\ n - 1 < high
      BY <3>1
    <3>3. QED
      BY Zenon, <3>2 DEF InRange, n, low, high
  <2>3. at(rf.log, prevIdx).Term \in Nat
    BY SMTT(30), <1>2, <2>2, AtType
  <2>4. entries \in Seq(Entry)
        /\ Len(entries) = IF prevIdx + 1 < size(rf.log) THEN size(rf.log) - (prevIdx + 1) ELSE 0
    <3>1. prevIdx + 1 \in Nat /\ rf.log.snapLastIdx <= prevIdx + 1
      BY <1>3, <2>2 DEF InRange
    <3>2. QED
      BY Zenon, <1>2, <3>1, TailType
  <2> HIDE DEF entries
  <2>5. args \in AppendArgs /\ args.Term = rf.currentTerm /\ args.PrevLogIndex = prevIdx
        /\ args.Entries = entries
    BY Zenon, <1>2, <2>2, <2>3, <2>4 DEF AppendArgs, Term
  <2> HIDE DEF args
  <2>6. m \in RequestType("AppendEntries", AppendArgs) /\ m.from = i
        /\ m.type = "AppendEntries" /\ m.args = args
    BY Zenon, <1>2, <2>5 DEF Request, RequestType
  <2> HIDE DEF m
  <2>7. Carried(m) <= lastIndex(rf.log)
    <3>1. Carried(m) = prevIdx + Len(entries)
      BY Zenon, <2>5, <2>6 DEF Carried
    <3>2. prevIdx <= lastIndex(rf.log)
      BY <1>3, <2>2 DEF InRange
    <3> HIDE DEF prevIdx
    <3>3. QED
      BY SMTT(60), <1>3, <2>2, <2>4, <3>1, <3>2
  <2>8. SentBy(m, i)
    BY <1>2, <2>5, <2>6, <2>7, Roles DEF SentBy
  <2>9. QED
    BY <2>1, <2>6, <2>8 DEF AnyRequest
<1>6. QED
  BY <1>4, <1>5

\* startReplication.
LEMMA StartReplicationStep ==
    ASSUME TypeInv, NEW i \in Server, startReplication(i)
    PROVE  Sound /\ Quietly
<1> DEFINE f == Progress(peer[i], i, size(peer[i].log) - 1, size(peer[i].log))
           A == {replicateTo(i, p) : p \in Server \ {i}}
           B == {}
<1>1. Good(peer[i]) /\ peer[i] \in Peer /\ peer \in [Server -> Peer] /\ peer[i].log \in LogType
  BY Instances, PeerFields DEF Good
<1>2. size(peer[i].log) \in Nat /\ size(peer[i].log) - 1 \in Nat
  BY <1>1, SizeType
<1>3. peer' = [peer EXCEPT ![i] = f]
  BY Zenon, <1>1 DEF startReplication, Progress, Peer
<1>4. peer[i].role = Leader
  BY DEF startReplication
<1>5. \A m \in A : m \in AnyRequest /\ SentBy(m, m.from)
  BY <1>4, ReplicateToFacts
<1>6. requests' \subseteq requests \cup A /\ replies' \subseteq replies \cup B
  <2> HIDE DEF A
  <2>1. requests' = Deliverable("requests", requests, A) /\ replies' = replies
    BY DEF startReplication, Send, A
  <2>2. QED
    BY <2>1, DeliverableSubset
<1>7. Good(f) /\ Same(peer[i], f) /\ f.votes = peer[i].votes
  <2> DEFINE last == size(peer[i].log)
  <2>1. last \in Nat /\ last - 1 \in Nat /\ last <= last
    BY <1>2
  <2> HIDE DEF last
  <2>2. peer[i].role = Leader => last <= size(peer[i].log)
    BY <2>1 DEF last
  <2> DEFINE g == Progress(peer[i], i, last - 1, last)
  <2>3. Good(g) /\ Same(peer[i], g) /\ g.votes = peer[i].votes
    BY <1>1, <2>1, <2>2, ProgressFacts
  <2>4. QED
    BY <2>3 DEF last
<1> HIDE DEF f, A
<1>8. Evolves(peer[i], f)
  BY <1>1, <1>7, SameEvolves
<1>9. \A r \in B : r \in AnyReply /\ SentBy(r, r.to)
  OBVIOUS
<1> HIDE DEF B
<1>10. Sound
  BY Zenon, <1>3, <1>5, <1>6, <1>7, <1>8, <1>9, Frame DEF Sound
<1>11. Quietly
  <2>1. \A r \in replies' : r.type = "RequestVote" => r \in replies
    BY DEF startReplication
  <2>2. QED
    BY Zenon, <1>3, <1>7, <2>1, SameQuiet, QuietFrame
<1>12. QED
  BY <1>10, <1>11

\* What a follower stores is a log, on disk before it answers.
LEMMA StoreFacts ==
    ASSUME NEW rf, Good(rf), rf.role = Follower, NEW args \in AppendArgs, matches(rf.log, args)
    PROVE  LET f == store(rf, args) IN
           /\ Good(f) /\ Evolves(rf, f) /\ f.role = Follower
           /\ f.currentTerm = rf.currentTerm /\ f.votedFor = rf.votedFor /\ f.votes = rf.votes
<1> DEFINE log == appendFrom(rf.log, args.PrevLogIndex, args.Entries)
           f == Relogged(rf, log)
           n == Max({f.commitIndex, args.LeaderCommit})
           g == Committing(f, n, f.snapPending)
<1>1. rf \in Peer /\ rf.log \in LogType
  BY PeerFields DEF Good
<1>2. args.PrevLogIndex \in Nat /\ args.Entries \in Seq(Entry) /\ args.LeaderCommit \in Nat
  BY DEF AppendArgs
<1>3. log \in LogType
  BY <1>1, <1>2, AppendFromType DEF matches
<1>4. store(rf, args) = [f EXCEPT !.commitIndex = n]
  BY DEF store, Relogged
<1> HIDE DEF log
<1>5. /\ Good(f) /\ Evolves(rf, f) /\ f.role = Follower
      /\ f.currentTerm = rf.currentTerm /\ f.votedFor = rf.votedFor /\ f.votes = rf.votes
  BY <1>3, RelogFacts, Roles
<1> HIDE DEF f
<1>6. f \in Peer /\ f.commitIndex \in Nat /\ f.snapPending \in BOOLEAN
  BY <1>5, PeerFields DEF Good
<1>7. n \in Nat
  BY <1>2, <1>6, MaxPair
<1> HIDE DEF n
<1>8. store(rf, args) = g
  BY Zenon, <1>4, <1>6 DEF Committing, Peer
<1>9. Good(g) /\ Same(f, g) /\ g.votes = f.votes
  BY Zenon, <1>5, <1>6, <1>7, CommitFacts
<1> HIDE DEF g
<1>10. Evolves(rf, g)
  BY <1>1, <1>5, <1>6, <1>9, SameEvolves, EvolvesTransitive DEF Good
<1>11. QED
  BY <1>5, <1>8, <1>9, <1>10 DEF Same

\* The conflict a follower reports is a term and an index.
LEMMA ConflictType ==
    ASSUME NEW rl \in LogType, NEW args \in AppendArgs
    PROVE  conflict(rl, args) \in Nat \X Nat
<1>1. args.PrevLogIndex \in Nat
  BY DEF AppendArgs
<1>2. size(rl) \in Nat /\ rl.snapLastIdx \in Nat /\ rl.snapLastTerm \in Nat
  BY SizeType, LogFields
<1>3. CASE args.PrevLogIndex >= size(rl)
  BY <1>2, <1>3 DEF conflict, InvalidTerm
<1>4. CASE ~(args.PrevLogIndex >= size(rl)) /\ args.PrevLogIndex < rl.snapLastIdx
  BY <1>2, <1>4 DEF conflict
<1>5. CASE ~(args.PrevLogIndex >= size(rl)) /\ ~(args.PrevLogIndex < rl.snapLastIdx)
  <2> DEFINE term == at(rl, args.PrevLogIndex).Term
  <2>1. InRange(rl, args.PrevLogIndex)
    BY <1>1, <1>2, <1>5 DEF InRange
  <2>2. term \in Nat
    BY <1>1, <2>1, AtType
  <2>3. conflict(rl, args) = <<term, firstFor(rl, term)>>
    BY <1>5 DEF conflict
  <2> HIDE DEF term
  <2>4. firstFor(rl, term) \in Nat
    BY <2>2, FirstForType
  <2>5. QED
    BY <2>2, <2>3, <2>4
<1>6. QED
  BY <1>3, <1>4, <1>5

\* AppendEntries.
LEMMA AppendEntriesStep ==
    ASSUME TypeInv, NEW m \in requests, AppendEntries(m)
    PROVE  Sound /\ Quietly
<1> DEFINE j == m.to
           old == peer[j].currentTerm
           rf == becomeFollower(peer[j], m.args.Term)
           accept == m.args.Term >= old /\ matches(rf.log, m.args)
           f == IF accept THEN store(rf, m.args) ELSE rf
           c == IF m.args.Term < old \/ accept THEN <<InvalidTerm, InvalidIndex>>
                ELSE conflict(rf.log, m.args)
           body == [Term |-> old, Success |-> accept, Conflict |-> c]
<1>1. m \in AnyRequest /\ j \in Server /\ m.args.Term \in Nat
  BY Instances, RequestFields
<1>2. Good(peer[j]) /\ peer[j] \in Peer /\ old \in Nat
  BY Zenon, <1>1, Instances, PeerFields DEF Good
<1>3. /\ Good(rf) /\ Evolves(peer[j], rf) /\ Quiet(peer[j], rf)
      /\ m.args.Term >= old => rf.role = Follower
  BY Zenon, <1>1, <1>2, BecomeFollowerFacts
<1>4. /\ m.type = "AppendEntries"
      /\ peer' = [peer EXCEPT ![j] = f]
      /\ requests' = requests
      /\ Reply(m, body)
  BY Zenon DEF AppendEntries
<1>5. accept \in BOOLEAN /\ (accept => m.args.Term >= old /\ matches(rf.log, m.args))
  BY Zenon
<1>6. m.args \in AppendArgs
  BY Zenon, <1>1, <1>4, RequestFields
<1> HIDE DEF accept, rf
<1>7. Good(f) /\ Evolves(rf, f) /\ Quiet(rf, f)
  <2>1. CASE accept
    BY Zenon, <1>3, <1>5, <1>6, <2>1, StoreFacts DEF Quiet
  <2>2. CASE ~accept
    BY Zenon, <1>3, <2>2, Stays DEF Good, Quiet
  <2>3. QED
    BY <2>1, <2>2
<1> HIDE DEF f
<1>8. Evolves(peer[j], f)
  BY Zenon, <1>2, <1>3, <1>7, EvolvesTransitive DEF Good
<1>9. body \in AppendBody
  <2>1. conflict(rf.log, m.args) \in Nat \X Nat
    BY Zenon, <1>3, <1>6, PeerFields, ConflictType DEF Good
  <2>2. c \in Nat \X Nat
    BY Zenon, <2>1 DEF InvalidTerm, InvalidIndex
  <2> HIDE DEF c
  <2>3. QED
    BY Zenon, <1>2, <1>5, <2>2 DEF AppendBody, Term
<1> HIDE DEF body
<1>10. PICK r : /\ replies' \subseteq replies \cup {r} /\ r \in AnyReply /\ SentBy(r, r.to)
                /\ r.type = m.type
  BY <1>4, <1>9, ReplySent
<1>11. requests' \subseteq requests
  BY <1>4
<1> HIDE DEF j
<1>12. Sound
  BY Zenon, <1>1, <1>4, <1>7, <1>8, <1>10, <1>11, FrameReply
<1>13. Quiet(peer[j], f)
  BY Zenon, <1>3, <1>7 DEF Quiet
<1>14. \A q \in replies' : q.type = "RequestVote" => q \in replies
  BY <1>4, <1>10
<1>15. QED
  BY Zenon, <1>1, <1>4, <1>12, <1>13, <1>14, QuietFrame

\* The reply of AppendEntries: the index it acknowledges is in the log of
\* the leader that still leads the term it asked in.
LEMMA AppendEntriesReplyStep ==
    ASSUME TypeInv, NEW r \in replies, AppendEntriesReply(r)
    PROVE  Sound /\ Quietly
<1> DEFINE i == r.to
           rf == peer[i]
           match == r.args.PrevLogIndex + Len(r.args.Entries)
           f == IF r.body.Term > rf.currentTerm THEN becomeFollower(rf, r.body.Term)
                ELSE IF contextLost(rf, Leader, r.args.Term) THEN rf
                ELSE IF r.body.Success THEN acknowledge(rf, r.from, match)
                     ELSE backOff(rf, r.from, r.body.Conflict)
<1>1. r \in AnyReply /\ i \in Server /\ r.from \in Server /\ r.body.Term \in Nat /\ SentBy(r, i)
  BY Zenon, Instances, ReplyFields
<1>2. Good(rf) /\ rf \in Peer
  BY Zenon, <1>1, Instances DEF Good
<1>3. /\ r.type = "AppendEntries"
      /\ peer' = [peer EXCEPT ![i] = f] /\ requests' = requests /\ replies' = replies
  BY Zenon DEF AppendEntriesReply
<1>4. r.args \in AppendArgs /\ r.body.Conflict \in Nat \X Nat
  BY Zenon, <1>1, <1>3, ReplyFields DEF AppendBody, Term
<1>5. Replicates(r) /\ Carried(r) = match
  BY Zenon, <1>3 DEF Replicates, Carried
<1>6. match \in Nat
  BY Zenon, <1>1, <1>4, <1>5, <1>3, CarriedType
<1> HIDE DEF match
<1>7. Good(f) /\ Evolves(rf, f) /\ Quiet(rf, f)
  <2>1. CASE r.body.Term > rf.currentTerm
    BY Zenon, <1>1, <1>2, <2>1, BecomeFollowerFacts
  <2>2. CASE ~(r.body.Term > rf.currentTerm) /\ contextLost(rf, Leader, r.args.Term)
    BY Zenon, <1>2, <2>2, Stays DEF Quiet
  <2>3. CASE ~(r.body.Term > rf.currentTerm) /\ ~contextLost(rf, Leader, r.args.Term)
    <3>1. match <= lastIndex(rf.log)
      BY Zenon, <1>1, <1>5, <2>3 DEF SentBy, contextLost
    <3> DEFINE a == acknowledge(rf, r.from, match)
               b == backOff(rf, r.from, r.body.Conflict)
    <3>2. f = IF r.body.Success THEN a ELSE b
      BY Zenon, <2>3
    <3>3. Good(a) /\ Same(rf, a) /\ a.votes = rf.votes
      BY Zenon, <1>1, <1>2, <1>6, <3>1, AcknowledgeFacts
    <3>4. Good(b) /\ Same(rf, b) /\ b.votes = rf.votes
      BY SMTT(60), <1>1, <1>2, <1>4, BackOffFacts
    <3> HIDE DEF f, a, b
    <3>5. Good(f) /\ Same(rf, f) /\ f.votes = rf.votes
      BY Zenon, <3>2, <3>3, <3>4
    <3>6. QED
      BY Zenon, <1>2, <3>5, SameEvolves, SameQuiet
  <2>4. QED
    BY Zenon, <2>1, <2>2, <2>3
<1> HIDE DEF f
<1>8. QED
  BY Zenon, <1>1, <1>3, <1>7, FramePeer, QuietFrame DEF Sound

\* Snapshot: the log keeps its end.
LEMMA SnapshotStep ==
    ASSUME TypeInv, NEW i \in Server, NEW index \in 1..peer[i].commitIndex, Snapshot(i, index)
    PROVE  Sound /\ Quietly
<1> DEFINE rf == peer[i]
           log == doSnapshot(rf.log, index, Prefix(rf.log, index))
           f == Relogged(rf, log)
<1>1. Good(rf) /\ rf \in Peer /\ rf.log \in LogType /\ index \in Nat
  BY Instances, PeerFields DEF Good
<1>2. peer' = [peer EXCEPT ![i] = f] /\ requests' = requests /\ replies' = replies
  BY DEF Snapshot, Relogged
<1>3. log \in LogType /\ lastIndex(rf.log) <= lastIndex(log)
  <2>1. log \in LogType /\ lastIndex(log) = lastIndex(rf.log) /\ lastIndex(rf.log) \in Nat
    BY Zenon, <1>1, DoSnapshotType, SizeType
  <2>2. QED
    BY <2>1
<1> HIDE DEF log
<1>4. Good(f) /\ Evolves(rf, f) /\ Quiet(rf, f)
  BY <1>1, <1>3, RelogFacts DEF Quiet
<1> HIDE DEF f
<1>5. QED
  BY Zenon, <1>2, <1>4, FramePeer, QuietFrame DEF Sound

\* InstallSnapshot.
LEMMA InstallSnapshotStep ==
    ASSUME TypeInv, NEW m \in requests, InstallSnapshot(m)
    PROVE  Sound /\ Quietly
<1> DEFINE j == m.to
           old == peer[j].currentTerm
           rf == becomeFollower(peer[j], m.args.Term)
           install == m.args.Term >= old /\ rf.log.snapLastIdx < m.args.LastIncludedIndex
           log == installSnapshot(rf.log, m.args.LastIncludedIndex, m.args.LastIncludedTerm,
                                  m.args.Snapshot)
           g == Relogged(rf, log)
           h == [g EXCEPT !.snapPending = TRUE]
           f == IF install THEN h ELSE rf
           body == [Term |-> old]
<1>1. m \in AnyRequest /\ j \in Server /\ m.args.Term \in Nat
  BY Instances, RequestFields
<1>2. Good(peer[j]) /\ peer[j] \in Peer /\ old \in Nat
  BY <1>1, Instances, PeerFields DEF Good
<1>3. /\ Good(rf) /\ Evolves(peer[j], rf) /\ Quiet(peer[j], rf)
      /\ m.args.Term >= old => rf.role = Follower
  BY Zenon, <1>1, <1>2, BecomeFollowerFacts
<1>4. /\ m.type = "InstallSnapshot"
      /\ peer' = [peer EXCEPT ![j] = f]
      /\ requests' = requests
      /\ Reply(m, body)
  BY Zenon DEF InstallSnapshot, Relogged
<1>5. install => m.args.Term >= old
  OBVIOUS
<1>6. m.args \in SnapshotArgs
  BY Zenon, <1>1, <1>4, RequestFields
<1> HIDE DEF install, rf
<1>7. Good(f) /\ Evolves(rf, f) /\ Quiet(rf, f)
  <2>1. CASE install
    <3>1. rf \in Peer /\ rf.log \in LogType /\ rf.role = Follower
      BY <1>3, <1>5, <2>1, PeerFields DEF Good
    <3>2. log \in LogType
      BY Zenon, <1>6, <3>1, InstallSnapshotType DEF SnapshotArgs, Term
    <3> HIDE DEF log
    <3>3. Good(g) /\ Evolves(rf, g) /\ g.role = Follower
      BY <1>3, <3>1, <3>2, RelogFacts, Roles
    <3> HIDE DEF g
    <3>4. g \in Peer /\ g.commitIndex \in Nat
      BY <3>3, PeerFields DEF Good
    <3>5. h = Committing(g, g.commitIndex, TRUE)
      BY Zenon, <3>4 DEF Committing, Peer
    <3> HIDE DEF h
    <3>6. Good(h) /\ Same(g, h)
      BY Zenon, <3>3, <3>4, <3>5, CommitFacts
    <3>7. Evolves(rf, h)
      BY Zenon, <3>1, <3>3, <3>4, <3>6, SameEvolves, EvolvesTransitive DEF Good
    <3>8. Quiet(rf, h)
      BY <3>3, <3>6 DEF Same, Quiet
    <3>9. QED
      BY <2>1, <3>6, <3>7, <3>8
  <2>2. CASE ~install
    BY Zenon, <1>3, <2>2, Stays DEF Good, Quiet
  <2>3. QED
    BY <2>1, <2>2
<1> HIDE DEF f
<1>8. Evolves(peer[j], f)
  BY Zenon, <1>2, <1>3, <1>7, EvolvesTransitive DEF Good
<1>9. body \in [Term : Term]
  BY Zenon, <1>2 DEF Term
<1> HIDE DEF body
<1>10. PICK r : /\ replies' \subseteq replies \cup {r} /\ r \in AnyReply /\ SentBy(r, r.to)
                /\ r.type = m.type
  BY <1>4, <1>9, ReplySent
<1>11. requests' \subseteq requests
  BY <1>4
<1> HIDE DEF j
<1>12. Sound
  BY Zenon, <1>1, <1>4, <1>7, <1>8, <1>10, <1>11, FrameReply
<1>13. Quiet(peer[j], f)
  BY Zenon, <1>3, <1>7 DEF Quiet
<1>14. \A q \in replies' : q.type = "RequestVote" => q \in replies
  BY <1>4, <1>10
<1>15. QED
  BY Zenon, <1>1, <1>4, <1>12, <1>13, <1>14, QuietFrame

\* The reply of InstallSnapshot: the index it acknowledges is in the log.
LEMMA InstallSnapshotReplyStep ==
    ASSUME TypeInv, NEW r \in replies, InstallSnapshotReply(r)
    PROVE  Sound /\ Quietly
<1> DEFINE i == r.to
           rf == peer[i]
           index == r.args.LastIncludedIndex
           g == Progress(rf, r.from, index, index + 1)
           f == IF r.body.Term > rf.currentTerm THEN becomeFollower(rf, r.body.Term)
                ELSE IF contextLost(rf, Leader, r.args.Term) \/ index <= rf.matchIndex[r.from] THEN rf
                ELSE g
<1>1. r \in AnyReply /\ i \in Server /\ r.from \in Server /\ r.body.Term \in Nat /\ SentBy(r, i)
  BY Zenon, Instances, ReplyFields
<1>2. Good(rf) /\ rf \in Peer
  BY Zenon, <1>1, Instances DEF Good
<1>3. /\ r.type = "InstallSnapshot"
      /\ peer' = [peer EXCEPT ![i] = f] /\ requests' = requests /\ replies' = replies
  BY Zenon DEF InstallSnapshotReply, Progress
<1>4. Replicates(r) /\ Carried(r) = index
  BY Zenon, <1>3 DEF Replicates, Carried
<1>5. index \in Nat
  BY Zenon, <1>1, <1>3, ReplyFields DEF SnapshotArgs
<1> HIDE DEF index
<1>6. Good(f) /\ Evolves(rf, f) /\ Quiet(rf, f)
  <2>1. CASE r.body.Term > rf.currentTerm
    BY Zenon, <1>1, <1>2, <2>1, BecomeFollowerFacts
  <2>2. CASE ~(r.body.Term > rf.currentTerm) /\ f = rf
    BY Zenon, <1>2, <2>2, Stays DEF Quiet
  <2>3. CASE ~(r.body.Term > rf.currentTerm) /\ f # rf
    <3>1. f = g /\ ~contextLost(rf, Leader, r.args.Term)
      BY Zenon, <2>3
    <3>2. index <= lastIndex(rf.log)
      BY Zenon, <1>1, <1>4, <3>1 DEF SentBy, contextLost
    <3>3. index + 1 \in Nat /\ index + 1 <= size(rf.log)
      <4>1. rf.log \in LogType
        BY <1>2, PeerFields
      <4>2. lastIndex(rf.log) \in Nat /\ lastIndex(rf.log) + 1 = size(rf.log)
        BY Zenon, <4>1, SizeType
      <4>3. QED
        BY <1>5, <3>2, <4>2
    <3> DEFINE next == index + 1
    <3> HIDE DEF next, f
    <3> DEFINE q == Progress(rf, r.from, index, next)
    <3>4. Good(q) /\ Same(rf, q) /\ q.votes = rf.votes
      BY <1>1, <1>2, <1>5, <3>3, ProgressFacts, SMTT(30) DEF next
    <3>5. Good(f) /\ Same(rf, f) /\ f.votes = rf.votes
      BY Zenon, <3>1, <3>4 DEF next
    <3>6. QED
      BY Zenon, <1>2, <3>5, SameEvolves, SameQuiet
  <2>4. QED
    BY Zenon, <2>1, <2>2, <2>3
<1> HIDE DEF f
<1>7. QED
  BY Zenon, <1>1, <1>3, <1>6, FramePeer, QuietFrame DEF Sound

\* The end of a round of applicationTicker with a snapshot.
LEMMA ApplySnapshotStep ==
    ASSUME TypeInv, NEW i \in Server, applySnapshot(i)
    PROVE  Sound /\ Quietly
<1> DEFINE rf == peer[i]
           n == Max({rf.commitIndex, rf.log.snapLastIdx})
           f == Committing(rf, n, FALSE)
<1>1. Good(rf) /\ rf \in Peer /\ rf.log \in LogType /\ rf.commitIndex \in Nat
  BY Instances, PeerFields DEF Good
<1>2. rf.log.snapLastIdx \in Nat
  BY <1>1, LogFields
<1>3. n \in Nat
  BY Zenon, <1>1, <1>2, MaxPair
<1>4. peer' = [peer EXCEPT ![i] = f] /\ requests' = requests /\ replies' = replies
  BY Zenon, Instances DEF applySnapshot, Committing, Peer
<1> HIDE DEF n
<1>5. Good(f) /\ Same(rf, f) /\ f.votes = rf.votes
  BY Zenon, <1>1, <1>3, CommitFacts
<1> HIDE DEF f
<1>6. Evolves(rf, f) /\ Quiet(rf, f)
  BY <1>1, <1>5, SameEvolves, SameQuiet
<1>7. QED
  BY Zenon, <1>4, <1>5, <1>6, FramePeer, QuietFrame DEF Sound

\* What Make reads back from the disk.
LEMMA BootFacts ==
    ASSUME NEW disk \in Disk, NEW epoch \in Nat
    PROVE  LET f == Boot(disk, epoch) IN
           /\ Good(f) /\ f.role = Follower /\ f.votes = {}
           /\ f.currentTerm = disk.currentTerm /\ f.votedFor = disk.votedFor /\ f.log = disk.log
<1> DEFINE f == Boot(disk, epoch)
<1>1. /\ disk.currentTerm \in Nat /\ disk.votedFor \in Server \cup {Nil} /\ disk.log \in LogType
      /\ disk = [currentTerm |-> disk.currentTerm, votedFor |-> disk.votedFor, log |-> disk.log]
  BY DEF Disk, Term
<1>2. disk.log.snapLastIdx \in Nat
  BY <1>1, LogFields
<1>3. f \in Peer
  BY <1>1, <1>2 DEF Boot, Peer, Term
<1>4. /\ f.role = Follower /\ f.votes = {} /\ f.currentTerm = disk.currentTerm
      /\ f.votedFor = disk.votedFor /\ f.log = disk.log /\ f.disk = disk
  BY DEF Boot
<1> HIDE DEF f
<1>5. Saved(f)
  BY <1>1, <1>4 DEF Saved
<1>6. ProbesInLog(f)
  BY <1>4, Roles DEF ProbesInLog
<1>7. QED
  BY <1>3, <1>4, <1>5, <1>6 DEF Good, f

\* A restart loses nothing the disk should hold.
LEMMA RestartStep ==
    ASSUME TypeInv, NEW i \in Server, Restart(i)
    PROVE  Sound /\ Quietly
<1> DEFINE rf == peer[i]
           e == rf.epoch + 1
           f == Boot(rf.disk, e)
<1>1. Good(rf) /\ rf \in Peer /\ rf.disk \in Disk /\ rf.epoch \in Nat /\ Saved(rf)
      /\ rf.currentTerm \in Nat
  BY Instances, PeerFields DEF Good
<1>2. e \in Nat
  BY <1>1
<1>3. peer' = [peer EXCEPT ![i] = f] /\ requests' = requests /\ replies' = replies
  BY DEF Restart
<1> HIDE DEF e
<1>4. /\ Good(f) /\ f.role = Follower
      /\ f.currentTerm = rf.disk.currentTerm /\ f.votedFor = rf.disk.votedFor
  BY Zenon, <1>1, <1>2, BootFacts
<1> HIDE DEF f
<1>5. f.currentTerm = rf.currentTerm /\ f.votedFor = rf.votedFor
  BY <1>1, <1>4, SMTT(30) DEF Saved
<1>6. Evolves(rf, f) /\ Quiet(rf, f)
  BY <1>1, <1>4, <1>5, Roles, SMTT(30) DEF Evolves, Quiet
<1>7. QED
  BY Zenon, <1>3, <1>4, <1>6, FramePeer, QuietFrame DEF Sound

-----------------------------------------------------------------------------
(* The theorems. *)

\* Every peer starts well, and nothing is on the network.
LEMMA InitTypeInv == Init => TypeInv
<1> SUFFICES ASSUME Init PROVE TypeInv
  OBVIOUS
<1> DEFINE disk == [currentTerm |-> 1, votedFor |-> Nil, log |-> NewLog]
<1>1. disk \in Disk
  BY NewLogType DEF Disk, Term
<1>2. peer = [i \in Server |-> Boot(disk, 0)] /\ requests = {} /\ replies = {}
  BY DEF Init
<1> HIDE DEF disk
<1>3. Good(Boot(disk, 0))
  BY <1>1, BootFacts
<1>4. peer \in [Server -> Peer] /\ \A i \in Server : Good(peer[i])
  BY <1>2, <1>3 DEF Good
<1>5. QED
  BY <1>2, <1>4 DEF TypeInv, TypeOK, Durable, IndexInv, Good

\* Every action, or a step that changes nothing.
LEMMA NextSound ==
    ASSUME TypeInv, [Next]_vars
    PROVE  Sound
<1>1. CASE UNCHANGED vars
  <2>1. peer' = peer /\ requests' = requests /\ replies' = replies
    BY <1>1 DEF vars
  <2>2. \A i \in Server : Evolves(peer[i], peer'[i])
    BY <2>1, Instances, Stays DEF Good
  <2>3. TypeInv'
    BY Zenon, <2>1 DEF TypeInv, TypeOK, Durable, IndexInv, SentBy
  <2>4. QED
    BY <2>2, <2>3 DEF Sound
<1>2. ASSUME NEW i \in Server, electionTicker(i) PROVE Sound
  BY <1>2, ElectionTickerStep
<1>3. ASSUME NEW i \in Server, NEW term \in peer[i].electing, startElection(i, term) PROVE Sound
  BY Zenon, <1>3, StartElectionStep
<1>4. ASSUME NEW m \in requests, RequestVote(m) PROVE Sound
  BY <1>4, RequestVoteStep
<1>5. ASSUME NEW r \in replies, RequestVoteReply(r) PROVE Sound
  BY <1>5, RequestVoteReplyStep
<1>6. ASSUME NEW i \in Server, NEW command \in Command, Start(i, command) PROVE Sound
  BY <1>6, StartStep
<1>7. ASSUME NEW i \in Server, startReplication(i) PROVE Sound
  BY <1>7, StartReplicationStep
<1>8. ASSUME NEW m \in requests, AppendEntries(m) PROVE Sound
  BY <1>8, AppendEntriesStep
<1>9. ASSUME NEW r \in replies, AppendEntriesReply(r) PROVE Sound
  BY <1>9, AppendEntriesReplyStep
<1>10. ASSUME NEW i \in Server, NEW index \in 1..peer[i].commitIndex, Snapshot(i, index) PROVE Sound
  BY <1>10, SnapshotStep
<1>11. ASSUME NEW m \in requests, InstallSnapshot(m) PROVE Sound
  BY <1>11, InstallSnapshotStep
<1>12. ASSUME NEW r \in replies, InstallSnapshotReply(r) PROVE Sound
  BY <1>12, InstallSnapshotReplyStep
<1>13. ASSUME NEW i \in Server, applySnapshot(i) PROVE Sound
  BY <1>13, ApplySnapshotStep
<1>14. ASSUME NEW i \in Server, Restart(i) PROVE Sound
  BY <1>14, RestartStep
<1>15. QED
  BY Zenon, <1>1, <1>2, <1>3, <1>4, <1>5, <1>6, <1>7, <1>8, <1>9, <1>10, <1>11, <1>12, <1>13, <1>14
     DEF Next

\* The inductive invariant behind the types.
THEOREM TypeInvariant == Spec => []TypeInv
<1>1. TypeInv /\ [Next]_vars => TypeInv'
  BY NextSound DEF Sound
<1>2. QED
  BY <1>1, InitTypeInv, PTL DEF Spec

\* State and messages keep their types under every interleaving, loss,
\* reordering and restart: in particular no index of a leader is negative.
THEOREM TypeCorrect == Spec => []TypeOK
<1>1. TypeInv => TypeOK
  BY DEF TypeInv
<1>2. QED
  BY <1>1, TypeInvariant, PTL

\* Whenever a peer's mutex is free, its term, its vote and its log are on disk.
THEOREM AlwaysDurable == Spec => []Durable
<1>1. TypeInv => Durable
  BY DEF TypeInv
<1>2. QED
  BY <1>1, TypeInvariant, PTL

\* No critical section and no restart lowers a peer's term or changes a vote
\* it has cast in the term.
THEOREM VotesAreStable == Spec => VoteStable
<1> DEFINE Keeps == \A i \in Server :
                       /\ peer'[i].currentTerm >= peer[i].currentTerm
                       /\ peer'[i].currentTerm = peer[i].currentTerm /\ peer[i].votedFor # Nil
                             => peer'[i].votedFor = peer[i].votedFor
<1>1. TypeInv /\ [Next]_vars => [Keeps]_vars
  BY NextSound DEF Sound, Evolves
<1>2. QED
  BY <1>1, TypeInvariant, PTL DEF Spec, VoteStable
=============================================================================
