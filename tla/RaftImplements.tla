-------------------------- MODULE RaftImplements --------------------------
(***************************************************************************)
(* Raft implements the replicated log that its services are built on.  A   *)
(* peer's log is its snapshot and its tail; the committed entries are what *)
(* the peer with the highest commitIndex holds as committed.  That is a    *)
(* function of the state as long as no peer restarts, which resets its     *)
(* commitIndex.                                                            *)
(***************************************************************************)
EXTENDS Raft

LongestCommitted ==
    LET i == CHOOSE i \in Server : \A j \in Server : peer[j].commitIndex <= peer[i].commitIndex
    IN  Committed(i)

Abstract == INSTANCE ReplicatedLog WITH
    log <- [i \in Server |-> History(peer[i].log)],
    leaders <- {i \in Server : IsLeader(i)},
    committed <- LongestCommitted

=============================================================================
