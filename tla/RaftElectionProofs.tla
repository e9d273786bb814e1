------------------------ MODULE RaftElectionProofs ------------------------
(***************************************************************************)
(* No term has two leaders, for any number of peers and any behaviour of   *)
(* the network.  VoteInv is the inductive invariant: every vote that was   *)
(* counted or is on its way is remembered by the peer that cast it, so a   *)
(* peer has at most one vote out per term, and two majorities meet in a    *)
(* peer that would have two.                                               *)
(***************************************************************************)
EXTENDS RaftProofs

\* j's vote for i in term t, cast in this step and the only one of the term.
Cast(j, i, t) ==
    /\ peer'[j].currentTerm = t /\ peer'[j].votedFor = i
    /\ \A k \in Server : HoldsVote(j, k, t) => k = i

\* What a step may do to the votes.
Fair ==
    /\ \A j, i \in Server, t \in Term : HoldsVote(j, i, t)' => HoldsVote(j, i, t) \/ Cast(j, i, t)
    /\ \A i \in Server :
          /\ peer'[i].role # Follower => peer'[i].votedFor = i
          /\ IsLeader(i)' => IsMajority(peer'[i].votes)

\* Such a step keeps the votes unique and remembered.
LEMMA FairKeepsVotes ==
    ASSUME TypeInv, VoteInv, Sound, Fair
    PROVE  VoteInv'
<1>1. \A j \in Server : peer[j].currentTerm \in Nat /\ peer'[j].currentTerm \in Nat
  <2>1. peer \in [Server -> Peer] /\ peer' \in [Server -> Peer]
    BY DEF Sound, TypeInv, TypeOK
  <2>2. QED
    BY <2>1, PeerFields
<1>2. ASSUME NEW j \in Server, NEW i \in Server, NEW t \in Term, HoldsVote(j, i, t)'
      PROVE  \/ peer'[j].currentTerm > t
             \/ peer'[j].currentTerm = t /\ peer'[j].votedFor = i
  <2>1. CASE Cast(j, i, t)
    BY <2>1 DEF Cast
  <2>2. CASE HoldsVote(j, i, t)
    <3>1. peer[j].currentTerm > t \/ (peer[j].currentTerm = t /\ peer[j].votedFor = i)
      BY <2>2 DEF VoteInv
    <3>2. /\ peer'[j].currentTerm >= peer[j].currentTerm
          /\ peer'[j].currentTerm = peer[j].currentTerm =>
                (peer[j].votedFor # Nil => peer'[j].votedFor = peer[j].votedFor)
      BY DEF Sound, Evolves
    <3>3. i # Nil /\ t \in Nat
      BY ServerAssumption DEF Term
    <3>4. QED
      BY <1>1, <3>1, <3>2, <3>3
  <2>3. QED
    BY <1>2, <2>1, <2>2 DEF Fair
<1>3. ASSUME NEW j \in Server, NEW i \in Server, NEW k \in Server, NEW t \in Term,
             HoldsVote(j, i, t)', HoldsVote(j, k, t)'
      PROVE  i = k
  <2>1. HoldsVote(j, i, t) \/ Cast(j, i, t)
    BY <1>3 DEF Fair
  <2>2. HoldsVote(j, k, t) \/ Cast(j, k, t)
    BY <1>3 DEF Fair
  <2>3. QED
    BY <2>1, <2>2 DEF Cast, VoteInv
<1>4. \A i \in Server :
        /\ peer'[i].role # Follower => peer'[i].votedFor = i
        /\ IsLeader(i)' => IsMajority(peer'[i].votes)
  BY DEF Fair
<1> DEFINE Remembered == \A j, i \in Server, t \in Term :
              HoldsVote(j, i, t) =>
                  \/ peer[j].currentTerm > t
                  \/ peer[j].currentTerm = t /\ peer[j].votedFor = i
           Unique == \A j, i, k \in Server, t \in Term : HoldsVote(j, i, t) /\ HoldsVote(j, k, t) => i = k
<1>5. Remembered'
  BY <1>2
<1>6. Unique'
  BY <1>3
<1>7. QED
  BY <1>4, <1>5, <1>6 DEF VoteInv

\* Steps outside elections cast no vote.
LEMMA QuietIsFair ==
    ASSUME TypeInv, VoteInv, Quietly
    PROVE  Fair
<1>1. ASSUME NEW j \in Server, NEW i \in Server, NEW t \in Term, HoldsVote(j, i, t)'
      PROVE  HoldsVote(j, i, t)
  <2>1. CASE peer'[i].role # Follower /\ peer'[i].currentTerm = t /\ j \in peer'[i].votes
    BY <2>1 DEF Quietly, Quiet, HoldsVote
  <2>2. CASE \E r \in replies' : /\ r.type = "RequestVote" /\ r.body.VoteGranted
                                 /\ r.from = j /\ r.to = i /\ r.args.Term = t
    BY <2>2 DEF Quietly, HoldsVote
  <2>3. QED
    BY Zenon, <1>1, <2>1, <2>2 DEF HoldsVote
<1>2. ASSUME NEW i \in Server
      PROVE  /\ peer'[i].role # Follower => peer'[i].votedFor = i
             /\ IsLeader(i)' => IsMajority(peer'[i].votes)
  <2>1. /\ peer[i].role # Follower => peer[i].votedFor = i
        /\ IsLeader(i) => IsMajority(peer[i].votes)
    BY DEF VoteInv
  <2>2. Quiet(peer[i], peer'[i])
    BY DEF Quietly
  <2>3. QED
    BY <2>1, <2>2, Roles DEF Quiet, IsLeader
<1>3. QED
  BY <1>1, <1>2 DEF Fair

\* One peer changes, and possibly a RequestVote is answered by r.
LEMMA FairFrame ==
    ASSUME TypeInv, VoteInv, NEW i \in Server, NEW f, peer' = [peer EXCEPT ![i] = f],
           f.role # Follower => f.votedFor = i,
           f.role = Leader => IsMajority(f.votes),
           \A j \in Server : f.role # Follower /\ j \in f.votes
               => HoldsVote(j, i, f.currentTerm) \/ Cast(j, i, f.currentTerm),
           \A r \in replies' :
               r.type = "RequestVote" /\ r.body.VoteGranted
                   => r \in replies \/ Cast(r.from, r.to, r.args.Term)
    PROVE  Fair
<1>1. peer \in [Server -> Peer]
  BY DEF TypeInv, TypeOK
<1>2. peer'[i] = f /\ \A k \in Server : k # i => peer'[k] = peer[k]
  BY <1>1
<1>3. ASSUME NEW j \in Server, NEW k \in Server, NEW t \in Term, HoldsVote(j, k, t)'
      PROVE  HoldsVote(j, k, t) \/ Cast(j, k, t)
  <2>1. CASE peer'[k].role # Follower /\ peer'[k].currentTerm = t /\ j \in peer'[k].votes
    <3>1. CASE k = i
      BY <1>2, <2>1, <3>1
    <3>2. CASE k # i
      BY Zenon, <1>2, <2>1, <3>2 DEF HoldsVote
    <3>3. QED
      BY <3>1, <3>2
  <2>2. CASE \E r \in replies' : /\ r.type = "RequestVote" /\ r.body.VoteGranted
                                 /\ r.from = j /\ r.to = k /\ r.args.Term = t
    BY <2>2 DEF HoldsVote
  <2>3. QED
    BY Zenon, <1>3, <2>1, <2>2 DEF HoldsVote
<1>4. ASSUME NEW k \in Server
      PROVE  /\ peer'[k].role # Follower => peer'[k].votedFor = k
             /\ IsLeader(k)' => IsMajority(peer'[k].votes)
  <2>1. CASE k = i
    BY <1>2, <2>1 DEF IsLeader
  <2>2. CASE k # i
    BY <1>2, <2>2 DEF IsLeader, VoteInv
  <2>3. QED
    BY Zenon, <2>1, <2>2
<1>5. QED
  BY <1>3, <1>4 DEF Fair

-----------------------------------------------------------------------------
(* The actions of an election. *)

\* electionTicker opens a candidacy without counted votes.
LEMMA ElectionTickerFair ==
    ASSUME TypeInv, VoteInv, NEW i \in Server, electionTicker(i)
    PROVE  Fair
<1> DEFINE rf == becomeCandidate(peer[i], i)
           e == rf.electing \cup {rf.currentTerm}
           f == Counting(rf, e, {})
<1>1. Good(rf) /\ rf.role = Candidate /\ rf.votedFor = i
  BY Instances, BecomeCandidateFacts
<1>2. peer' = [peer EXCEPT ![i] = f] /\ replies' = replies
  BY DEF electionTicker, Counting
<1> HIDE DEF rf
<1>3. e \in SUBSET Nat
  BY <1>1, PeerFields DEF Good
<1> HIDE DEF e
<1>4. f.role = Candidate /\ f.votedFor = i /\ f.votes = {}
  BY <1>1, <1>3, VotesFacts DEF Same
<1> HIDE DEF f
<1>5. QED
  BY Zenon, <1>2, <1>4, Roles, FairFrame

\* startElection casts the candidate's own vote, unless it is abandoned.
LEMMA StartElectionFair ==
    ASSUME TypeInv, VoteInv, NEW i \in Server, NEW term \in peer[i].electing, startElection(i, term)
    PROVE  Fair
<1> DEFINE e == peer[i].electing \ {term}
           lost == contextLost([peer[i] EXCEPT !.electing = e], Candidate, term)
           v == IF lost THEN peer[i].votes ELSE {i}
           f == Counting(peer[i], e, v)
           t == peer[i].currentTerm
<1>1. Good(peer[i]) /\ peer[i] \in Peer /\ t \in Nat /\ peer \in [Server -> Peer]
  BY Instances, PeerFields DEF Good
<1>2. e \in SUBSET Nat /\ v \in SUBSET Server
  BY <1>1, PeerFields
<1>3. peer' = [peer EXCEPT ![i] = f] /\ replies' = replies
  BY Zenon, <1>1 DEF startElection, Counting, Peer
<1>4. ~lost => peer[i].role = Candidate
  BY <1>1 DEF contextLost, Peer
<1> HIDE DEF e, lost
<1>5. Same(peer[i], f) /\ f.votes = v
  BY <1>1, <1>2, VotesFacts
<1>6. /\ peer[i].role # Follower => peer[i].votedFor = i
      /\ peer[i].role = Leader => IsMajority(peer[i].votes)
  BY Zenon DEF VoteInv, IsLeader
<1>7. f.role # Follower => f.votedFor = i
  BY Zenon, <1>5, <1>6 DEF Same
<1>8. f.role = Leader => IsMajority(f.votes)
  BY Zenon, <1>4, <1>5, <1>6, Roles DEF Same
<1>9. \A j \in Server : f.role # Follower /\ j \in f.votes
        => HoldsVote(j, i, f.currentTerm) \/ Cast(j, i, f.currentTerm)
  <2>1. TAKE j \in Server
  <2>2. HAVE f.role # Follower /\ j \in f.votes
  <2>3. CASE lost
    BY Zenon, <1>5, <2>2, <2>3 DEF Same, HoldsVote
  <2>4. CASE ~lost
    <3>1. j = i /\ peer[i].votedFor = i
      BY Zenon, <1>4, <1>5, <1>6, <2>2, <2>4, Roles
    <3>2. peer'[i].currentTerm = t /\ peer'[i].votedFor = i /\ f.currentTerm = t
      BY Zenon, <1>1, <1>3, <1>5, <3>1 DEF Same
    <3>3. \A k \in Server : HoldsVote(i, k, t) => k = i
      <4>1. TAKE k \in Server
      <4>2. HAVE HoldsVote(i, k, t)
      <4>3. peer[i].currentTerm > t \/ (peer[i].currentTerm = t /\ peer[i].votedFor = k)
        BY Zenon, <1>1, <4>2 DEF VoteInv, Term
      <4>4. QED
        BY <1>1, <3>1, <4>3
    <3>4. QED
      BY Zenon, <3>1, <3>2, <3>3 DEF Cast
  <2>5. QED
    BY Zenon, <2>3, <2>4
<1> HIDE DEF f
<1>10. QED
  BY Zenon, <1>3, <1>7, <1>8, <1>9, FairFrame

\* RequestVote grants a vote only to the first who asks in a term.
LEMMA RequestVoteFair ==
    ASSUME TypeInv, VoteInv, NEW m \in requests, RequestVote(m)
    PROVE  Fair
<1> DEFINE j == m.to
           t == m.args.Term
           old == peer[j].currentTerm
           rf == Heard(peer[j], t)
           granted == /\ t >= old
                      /\ rf.votedFor = Nil
                      /\ ~isMoreUpToDate(rf, m.args.LastLogIndex, m.args.LastLogTerm)
           f == IF granted THEN grant(rf, m.from) ELSE rf
           body == [Term |-> old, VoteGranted |-> granted]
<1>1. m \in AnyRequest /\ j \in Server /\ m.from \in Server /\ t \in Nat
  BY Instances, RequestFields
<1>2. Good(peer[j]) /\ peer[j] \in Peer /\ old \in Nat /\ peer \in [Server -> Peer]
  BY <1>1, Instances, PeerFields DEF Good
<1>3. /\ Good(rf) /\ rf.votes = peer[j].votes
      /\ t > old => rf.role = Follower /\ rf.currentTerm = t
      /\ ~(t > old) => rf = peer[j]
  BY Zenon, <1>1, <1>2, HeardFacts
<1>4. m.type = "RequestVote" /\ peer' = [peer EXCEPT ![j] = f] /\ Reply(m, body)
  BY Zenon DEF RequestVote, Heard
<1>5. granted \in BOOLEAN /\ (granted => t >= old /\ rf.votedFor = Nil)
  BY Zenon
<1> HIDE DEF rf, granted
<1>6. /\ f.role = rf.role /\ f.currentTerm = rf.currentTerm /\ f.votes = rf.votes
      /\ granted => f.votedFor = m.from
      /\ ~granted => f = rf
  <2>1. CASE granted
    BY <1>1, <1>3, <1>5, <2>1, GrantFacts
  <2>2. CASE ~granted
    BY <2>2
  <2>3. QED
    BY <2>1, <2>2
<1>7. peer[j].role # Follower => peer[j].votedFor = j
  BY <1>1 DEF VoteInv
<1>8. f.role # Follower => f = peer[j]
  <2>1. HAVE f.role # Follower
  <2>2. rf = peer[j]
    BY Zenon, <1>3, <1>6, <2>1
  <2>3. ~granted
    BY Zenon, <1>1, <1>5, <1>6, <1>7, <2>1, <2>2, ServerAssumption
  <2>4. QED
    BY <1>6, <2>2, <2>3
<1> HIDE DEF f
<1>9. peer'[j] = f
  BY <1>1, <1>2, <1>4
<1>10. granted => Cast(j, m.from, t)
  <2>1. HAVE granted
  <2>2. f.currentTerm = t /\ f.votedFor = m.from
    BY <1>1, <1>2, <1>3, <1>5, <1>6, <2>1
  <2>3. ASSUME NEW k \in Server, HoldsVote(j, k, t) PROVE k = m.from
    <3>1. peer[j].currentTerm > t \/ (peer[j].currentTerm = t /\ peer[j].votedFor = k)
      BY <1>1, <2>3 DEF VoteInv, Term
    <3>2. old = t /\ peer[j].votedFor = k
      BY <1>1, <1>2, <1>5, <2>1, <3>1
    <3>3. rf = peer[j]
      BY <1>1, <1>2, <1>3, <3>2
    <3>4. QED
      BY <1>5, <2>1, <3>2, <3>3, ServerAssumption
  <2>4. QED
    BY Zenon, <1>9, <2>2, <2>3 DEF Cast
<1>11. body \in VoteBody /\ body.VoteGranted = granted
  BY Zenon, <1>2, <1>5 DEF VoteBody, Term
<1> HIDE DEF body
<1>12. PICK r : /\ r.from = m.to /\ r.to = m.from /\ r.args = m.args /\ r.body = body
                /\ replies' \subseteq replies \cup {r}
  BY ZenonT(60), <1>4, <1>11, ReplySent
<1>13. \A q \in replies' : q.type = "RequestVote" /\ q.body.VoteGranted
          => q \in replies \/ Cast(q.from, q.to, q.args.Term)
  <2>1. TAKE q \in replies'
  <2>2. HAVE q.type = "RequestVote" /\ q.body.VoteGranted
  <2>3. CASE q = r
    BY <1>10, <1>11, <1>12, <2>2, <2>3
  <2>4. QED
    BY <1>12, <2>3
<1>14. \A k \in Server : f.role # Follower /\ k \in f.votes
          => HoldsVote(k, j, f.currentTerm) \/ Cast(k, j, f.currentTerm)
  BY <1>8 DEF HoldsVote
<1>15. f.role # Follower => f.votedFor = j
  BY <1>7, <1>8
<1>16. f.role = Leader => IsMajority(f.votes)
  BY <1>1, <1>8, Roles DEF VoteInv, IsLeader
<1> HIDE DEF j
<1>17. QED
  BY Zenon, <1>1, <1>4, <1>13, <1>14, <1>15, <1>16, FairFrame

\* A granted vote is counted once, by the candidate that asked for it.
LEMMA RequestVoteReplyFair ==
    ASSUME TypeInv, VoteInv, NEW r \in replies, RequestVoteReply(r)
    PROVE  Fair
<1> DEFINE i == r.to
           rf == peer[i]
           g == Tallied(rf, r.from)
           lost == contextLost(rf, Candidate, r.args.Term) \/ ~r.body.VoteGranted
           f == IF r.body.Term > rf.currentTerm THEN becomeFollower(rf, r.body.Term)
                ELSE IF lost THEN rf
                ELSE g
<1>1. i \in Server /\ r.from \in Server /\ r.body.Term \in Nat
  BY Instances, ReplyFields
<1>2. Good(rf) /\ rf \in Peer /\ rf.currentTerm \in Nat
  BY Zenon, <1>1, Instances, PeerFields DEF Good
<1>3. r.type = "RequestVote" /\ peer' = [peer EXCEPT ![i] = f] /\ replies' \subseteq replies
  BY Zenon DEF RequestVoteReply, Tallied, Counted
<1>4. /\ rf.role # Follower => rf.votedFor = i
      /\ rf.role = Leader => IsMajority(rf.votes)
  BY Zenon, <1>1 DEF VoteInv, IsLeader
<1>5. /\ f.role # Follower => f.votedFor = i
      /\ f.role = Leader => IsMajority(f.votes)
      /\ \A j \in Server : f.role # Follower /\ j \in f.votes => HoldsVote(j, i, f.currentTerm)
  <2>1. CASE r.body.Term > rf.currentTerm
    <3>1. f = becomeFollower(rf, r.body.Term)
      BY <2>1, Zenon
    <3> HIDE DEF f, g, lost
    <3>2. r.body.Term >= rf.currentTerm
      BY <1>1, <1>2, <2>1
    <3>3. f.role = Follower
      BY Zenon, <1>1, <1>2, <3>1, <3>2, BecomeFollowerFacts
    <3>4. QED
      BY Zenon, <3>3, Roles
  <2>2. CASE ~(r.body.Term > rf.currentTerm) /\ lost
    <3>1. f = rf
      BY <2>2
    <3> HIDE DEF f
    <3>2. QED
      BY Zenon, <1>4, <3>1 DEF HoldsVote
  <2>3. CASE ~(r.body.Term > rf.currentTerm) /\ ~lost
    <3>1. rf.role = Candidate /\ f = g /\ rf.currentTerm = r.args.Term /\ r.body.VoteGranted
      BY Zenon, <2>3 DEF contextLost
    <3>2. /\ g.votes = rf.votes \cup {r.from}
          /\ g.currentTerm = rf.currentTerm /\ g.votedFor = rf.votedFor
          /\ g.role = Candidate \/ (g.role = Leader /\ IsMajority(g.votes))
      BY <1>1, <1>2, <3>1, TalliedFacts, SMTT(60)
    <3> HIDE DEF f, g
    <3>3. HoldsVote(r.from, i, rf.currentTerm)
      BY Zenon, <1>3, <3>1 DEF HoldsVote
    <3>4. \A j \in rf.votes : HoldsVote(j, i, rf.currentTerm)
      BY <3>1, Roles DEF HoldsVote
    <3>5. QED
      BY Zenon, <1>4, <3>1, <3>2, <3>3, <3>4, Roles
  <2>4. QED
    BY Zenon, <2>1, <2>2, <2>3
<1> HIDE DEF f
<1> HIDE DEF i
<1>6. QED
  BY Zenon, <1>1, <1>3, <1>5, FairFrame

-----------------------------------------------------------------------------
(* The theorem. *)

\* Before the first step nobody has voted.
LEMMA InitVoteInv == Init => VoteInv
<1> SUFFICES ASSUME Init PROVE VoteInv
  OBVIOUS
<1>1. replies = {} /\ \A i \in Server : peer[i].role = Follower
  BY DEF Init, Boot
<1>2. \A j, i \in Server, t \in Term : ~HoldsVote(j, i, t)
  BY <1>1 DEF HoldsVote
<1>3. QED
  BY <1>1, <1>2, Roles DEF VoteInv, IsLeader

\* Every action keeps the votes unique and remembered.
LEMMA NextKeepsVotes ==
    ASSUME TypeInv, VoteInv, [Next]_vars
    PROVE  VoteInv'
<1>1. CASE UNCHANGED vars
  BY <1>1, SMTT(60) DEF vars, VoteInv, HoldsVote, IsLeader
<1>2. ASSUME NEW i \in Server, electionTicker(i) PROVE Fair
  BY <1>2, ElectionTickerFair
<1>3. ASSUME NEW i \in Server, NEW term \in peer[i].electing, startElection(i, term) PROVE Fair
  BY <1>3, StartElectionFair
<1>4. ASSUME NEW m \in requests, RequestVote(m) PROVE Fair
  BY <1>4, RequestVoteFair
<1>5. ASSUME NEW r \in replies, RequestVoteReply(r) PROVE Fair
  BY <1>5, RequestVoteReplyFair
<1>6. ASSUME NEW i \in Server, NEW command \in Command, Start(i, command) PROVE Quietly
  BY <1>6, StartStep
<1>7. ASSUME NEW i \in Server, startReplication(i) PROVE Quietly
  BY <1>7, StartReplicationStep
<1>8. ASSUME NEW m \in requests, AppendEntries(m) PROVE Quietly
  BY <1>8, AppendEntriesStep
<1>9. ASSUME NEW r \in replies, AppendEntriesReply(r) PROVE Quietly
  BY <1>9, AppendEntriesReplyStep
<1>10. ASSUME NEW i \in Server, NEW index \in 1..peer[i].commitIndex, Snapshot(i, index) PROVE Quietly
  BY <1>10, SnapshotStep
<1>11. ASSUME NEW m \in requests, InstallSnapshot(m) PROVE Quietly
  BY <1>11, InstallSnapshotStep
<1>12. ASSUME NEW r \in replies, InstallSnapshotReply(r) PROVE Quietly
  BY <1>12, InstallSnapshotReplyStep
<1>13. ASSUME NEW i \in Server, applySnapshot(i) PROVE Quietly
  BY <1>13, ApplySnapshotStep
<1>14. ASSUME NEW i \in Server, Restart(i) PROVE Quietly
  BY <1>14, RestartStep
<1>15. CASE Next
  <2>1. Fair
    BY Zenon, <1>2, <1>3, <1>4, <1>5, <1>6, <1>7, <1>8, <1>9, <1>10, <1>11, <1>12, <1>13, <1>14, <1>15,
       QuietIsFair DEF Next
  <2>2. Sound
    BY <1>15, NextSound
  <2>3. QED
    BY <2>1, <2>2, FairKeepsVotes
<1>16. QED
  BY <1>1, <1>15

\* Two leaders of a term would have a common voter, which has one vote.
LEMMA OneLeader ==
    ASSUME TypeInv, VoteInv
    PROVE  ElectionSafety
<1> SUFFICES ASSUME NEW i \in Server, NEW j \in Server, IsLeader(i), IsLeader(j),
                    peer[i].currentTerm = peer[j].currentTerm
             PROVE  i = j
  BY DEF ElectionSafety
<1> DEFINE t == peer[i].currentTerm
           V == peer[i].votes
           W == peer[j].votes
<1>1. peer[i] \in Peer /\ peer[j] \in Peer
  BY DEF TypeInv, TypeOK
<1>2. V \subseteq Server /\ W \subseteq Server /\ t \in Term
  BY <1>1, PeerFields DEF Term
<1>3. 2 * Cardinality(V) > Cardinality(Server) /\ 2 * Cardinality(W) > Cardinality(Server)
  BY DEF VoteInv, IsMajority
<1>4. V \cap W # {}
  <2>1. IsFiniteSet(Server) /\ IsFiniteSet(V) /\ IsFiniteSet(W)
    BY <1>2, ServerAssumption, FS_Subset
  <2> HIDE DEF V, W
  <2>2. Cardinality(V) \in Nat /\ Cardinality(W) \in Nat /\ Cardinality(Server) \in Nat
    BY <2>1, FS_CardinalityType
  <2>3. Cardinality(V) + Cardinality(W) > Cardinality(Server)
    BY <1>3, <2>2
  <2>4. QED
    BY <1>2, <2>1, <2>3, FS_MajoritiesIntersect
<1>5. PICK p \in Server : p \in V /\ p \in W
  BY <1>2, <1>4
<1>6. HoldsVote(p, i, t) /\ HoldsVote(p, j, t)
  BY Zenon, <1>5, Roles DEF HoldsVote, IsLeader
<1>7. QED
  BY <1>2, <1>6 DEF VoteInv

\* The election code elects at most one leader per term: whatever the network
\* loses, delays or reorders, and whichever peers restart.
THEOREM AtMostOneLeader == Spec => []ElectionSafety
<1>1. TypeInv /\ TypeInv' /\ VoteInv /\ [Next]_vars => VoteInv'
  BY NextKeepsVotes
<1>2. TypeInv /\ VoteInv => ElectionSafety
  BY OneLeader
<1>3. QED
  BY <1>1, <1>2, InitVoteInv, TypeInvariant, PTL DEF Spec
=============================================================================
