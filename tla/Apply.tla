------------------------------- MODULE Apply -------------------------------
(***************************************************************************)
(* How one Raft peer hands committed entries and snapshots to its service: *)
(* applicationTicker (src/raft/raft_application.go), the critical sections *)
(* of the other goroutines that wake it, and the service's receiving loop  *)
(* (applyTask of src/kvraft/server.go).                                    *)
(*                                                                         *)
(* The ticker holds rf.mu while it collects and while it finishes a round, *)
(* and not while it sends on the unbuffered applyCh.  An entry is named by *)
(* its index; a service state, and so a snapshot, is the sequence of the   *)
(* entries it was built from.                                              *)
(***************************************************************************)
EXTENDS Integers, Sequences, FiniteSetsExt

CONSTANTS Disturbing,   \* which InstallSnapshots arrive: see InstallSnapshot
          MaxIndex,     \* bound: length of the log
          MaxRestart    \* bound: restarts of the peer

ASSUME ApplyAssumption ==
    /\ Disturbing \subseteq {"meanwhile", "behind"}
    /\ MaxIndex \in Nat /\ MaxRestart \in Nat

VARIABLES log,          \* snapLastIdx, snapshot, and the last index
          commitIndex, lastApplied, snapPending,
          ticker,       \* where applicationTicker is, and its local variables
          mu,           \* the ticker holds rf.mu between two of its steps
          service,      \* state and lastApplied; busy inside the body of applyTask
          restarts

rf == <<log, commitIndex, lastApplied, snapPending>>
vars == <<log, commitIndex, lastApplied, snapPending, ticker, mu, service, restarts>>

\* The entries first..last.
Entries(first, last) == [k \in 1..(last - first + 1) |-> first + k - 1]

Loop == [pc |-> "loop", entries |-> <<>>, sent |-> 0, bytes |-> <<>>, index |-> 0]

\* applyCond.Signal reaches the ticker only inside Wait.
Signal == ticker' = IF ticker.pc = "waiting" THEN [ticker EXCEPT !.pc = "woken"] ELSE ticker

-----------------------------------------------------------------------------
(* applicationTicker. *)

Wait ==
    /\ ticker.pc = "loop"
    /\ ticker' = [ticker EXCEPT !.pc = "waiting"]
    /\ UNCHANGED <<rf, mu, service, restarts>>

\* The round takes what lies behind lastApplied up to end.
Take(end, held) ==
    /\ ticker.pc = "woken" /\ ~snapPending
    /\ lastApplied' = Max({lastApplied, log.snapLastIdx})
    /\ ticker' = [ticker EXCEPT !.pc = "sending", !.entries = Entries(lastApplied' + 1, end)]
    /\ mu' = held
    /\ UNCHANGED <<log, commitIndex, snapPending, service, restarts>>

collectUncommitted == Take(log.last, FALSE)


collect == Take(Min({commitIndex, log.last}), FALSE)

collectSnapshot ==
    /\ ticker.pc = "woken" /\ snapPending
    /\ ticker' = [ticker EXCEPT !.pc = "snapshot"]
    /\ UNCHANGED <<rf, mu, service, restarts>>

\* What the ticker sends next; lastApplied is read without rf.mu.
CommandIndex == lastApplied + 1 + ticker.sent
Command == ticker.entries[ticker.sent + 1]

\* The channel passes one command, and applyTask applies it.
sendEntry ==
    /\ ticker.pc = "sending" /\ ticker.sent < Len(ticker.entries)
    /\ ~service.busy
    /\ ticker' = [ticker EXCEPT !.sent = @ + 1]
    /\ service' = IF CommandIndex <= service.lastApplied THEN service
                  ELSE [state |-> Append(service.state, Command), lastApplied |-> CommandIndex,
                        busy |-> TRUE]
    /\ UNCHANGED <<rf, mu, restarts>>

\* The round is over: lastApplied moves to n.
Finish(n) ==
    /\ ticker.pc = "sending" /\ ticker.sent = Len(ticker.entries)
    /\ lastApplied' = n
    /\ ticker' = Loop
    /\ mu' = FALSE
    /\ UNCHANGED <<log, commitIndex, snapPending, service, restarts>>

finishEntriesAtCommit == Finish(commitIndex)

finishEntries == Finish(lastApplied + Len(ticker.entries))

\* The fields of a snapshot's ApplyMsg are read one by one, without rf.mu.
readSnapshot ==
    /\ ticker.pc = "snapshot"
    /\ ticker' = [ticker EXCEPT !.pc = "index", !.bytes = log.snapshot]
    /\ UNCHANGED <<rf, mu, service, restarts>>

readIndex ==
    /\ ticker.pc = "index"
    /\ ticker' = [ticker EXCEPT !.pc = "delivering", !.index = log.snapLastIdx]
    /\ UNCHANGED <<rf, mu, service, restarts>>

sendSnapshot ==
    /\ ticker.pc = "delivering"
    /\ ~service.busy
    /\ service' = [service EXCEPT !.state = IF ticker.bytes = <<>> THEN @ ELSE ticker.bytes,
                                  !.lastApplied = ticker.index]
    /\ ticker' = [ticker EXCEPT !.pc = "finish"]
    /\ UNCHANGED <<rf, mu, restarts>>

finishSnapshot ==
    /\ ticker.pc = "finish"
    /\ lastApplied' = log.snapLastIdx
    /\ commitIndex' = Max({commitIndex, log.snapLastIdx})
    /\ snapPending' = FALSE
    /\ ticker' = Loop
    /\ UNCHANGED <<log, mu, service, restarts>>

-----------------------------------------------------------------------------
(* The other goroutines, each a critical section of rf.mu. *)

\* The log ends at last and is committed up to n: AppendEntries of a
\* follower, or Start and an acknowledgement of a leader.
advance(last, n) ==
    /\ ~mu
    /\ last >= commitIndex /\ last >= log.snapLastIdx /\ n \in commitIndex..last
    /\ log' = [log EXCEPT !.last = last]
    /\ commitIndex' = n
    /\ IF n > commitIndex THEN Signal ELSE UNCHANGED ticker
    /\ UNCHANGED <<lastApplied, snapPending, mu, service, restarts>>

\* A snapshot arrives.  Unless Disturbing says so, not "meanwhile", while the
\* ticker is in a round, and not "behind" what has been applied.
Install(index) ==
    /\ ~mu
    /\ index > log.snapLastIdx
    /\ "meanwhile" \in Disturbing \/ ticker.pc = "waiting"
    /\ "behind" \in Disturbing \/ index > lastApplied
    /\ log' = [snapLastIdx |-> index, snapshot |-> Entries(1, index), last |-> Max({log.last, index})]
    /\ snapPending' = TRUE
    /\ UNCHANGED <<commitIndex, lastApplied, mu, service, restarts>>


InstallSnapshot(index) == Install(index) /\ Signal

\* The rest of applyTask: GetState takes rf.mu, and makeSnapshot may follow.
applyTaskEnd ==
    /\ service.busy
    /\ ~mu
    /\ service' = [service EXCEPT !.busy = FALSE]
    /\ UNCHANGED <<rf, ticker, mu, restarts>>

makeSnapshot ==
    LET index == service.lastApplied IN
    /\ service.busy
    /\ ~mu
    /\ log' = IF index <= commitIndex /\ index > log.snapLastIdx /\ index <= log.last
              THEN [log EXCEPT !.snapLastIdx = index, !.snapshot = service.state]
              ELSE log
    /\ service' = [service EXCEPT !.busy = FALSE]
    /\ UNCHANGED <<commitIndex, lastApplied, snapPending, ticker, mu, restarts>>

\* Make and StartKVServer: the log and the snapshot are read from disk.
Restart ==
    /\ restarts < MaxRestart
    /\ restarts' = restarts + 1
    /\ commitIndex' = log.snapLastIdx
    /\ lastApplied' = log.snapLastIdx
    /\ snapPending' = FALSE
    /\ ticker' = Loop
    /\ mu' = FALSE
    /\ service' = [state |-> log.snapshot, lastApplied |-> 0, busy |-> FALSE]
    /\ UNCHANGED log

Init ==
    /\ log = [snapLastIdx |-> 0, snapshot |-> <<>>, last |-> 0]
    /\ commitIndex = 0 /\ lastApplied = 0 /\ snapPending = FALSE
    /\ ticker = Loop
    /\ mu = FALSE
    /\ service = [state |-> <<>>, lastApplied |-> 0, busy |-> FALSE]
    /\ restarts = 0

Ticker == Wait \/ collect \/ collectSnapshot \/ finishEntries \/ readSnapshot \/ readIndex \/ finishSnapshot

Channel == sendEntry \/ sendSnapshot

Service == applyTaskEnd \/ makeSnapshot

Others ==
    \/ \E last, n \in 0..MaxIndex : advance(last, n)
    \/ \E index \in 1..MaxIndex : InstallSnapshot(index)
    \/ Restart

Next == Ticker \/ Channel \/ Service \/ Others

\* The goroutines of the ticker and of the service are never starved.
Spec == Init /\ [][Next]_vars /\ WF_vars(Ticker) /\ WF_vars(Channel) /\ WF_vars(Service)

-----------------------------------------------------------------------------
(* Properties. *)

\* The service has applied the entries 1, 2, 3... of the log, each once and
\* none left out, over batches, snapshots and restarts.
ServiceExact == \A k \in DOMAIN service.state : service.state[k] = k

\* Nothing reaches the service before it is committed: by commitIndex, or by
\* the leader whose snapshot was installed.
AppliedIsCommitted == \A k \in DOMAIN service.state : service.state[k] <= Max({commitIndex, log.snapLastIdx})

Alive(n) == restarts = n



\* As the peer becomes aware that entries are committed, it sends them to
\* the service.
CommittedApplied ==
    \A n \in 1..MaxIndex, k \in 0..MaxRestart :
        commitIndex >= n /\ Alive(k) ~> Len(service.state) >= n \/ ~Alive(k)

-----------------------------------------------------------------------------
(* The inductive invariant behind ServiceExact and AppliedIsCommitted. *)

Round == {"snapshot", "index", "delivering", "finish"}

TypeOK ==
    /\ log \in [snapLastIdx : Nat, snapshot : Seq(Nat), last : Nat]
    /\ commitIndex \in Nat /\ lastApplied \in Nat
    /\ snapPending \in BOOLEAN
    /\ ticker \in [pc : {"loop", "waiting", "woken", "sending"} \cup Round,
                   entries : Seq(Nat), sent : Nat, bytes : Seq(Nat), index : Nat]
    /\ mu = FALSE
    /\ service \in [state : Seq(Nat), lastApplied : Nat, busy : BOOLEAN]
    /\ restarts \in Nat

\* The service is built from the entries 1..n, and knows it unless it was
\* restarted since.
ServiceAt(n) ==
    /\ service.state = Entries(1, n)
    /\ service.lastApplied <= n
    /\ service.busy => service.lastApplied = n

\* A snapshot is pending from its arrival, in Wait, to the end of its round.
Pending ==
    /\ ticker.pc \in {"loop", "waiting", "sending"} => ~snapPending
    /\ ticker.pc \in Round => snapPending

\* Outside of a round the service is where lastApplied says.  In a round it
\* is ahead by what was sent: entries behind lastApplied, all of them
\* committed, or the one snapshot that is ahead of it.
Progress ==
    /\ ticker.pc \in {"loop", "waiting", "woken", "snapshot", "index", "delivering"} => ServiceAt(lastApplied)
    /\ ticker.pc = "sending" =>
          /\ ServiceAt(lastApplied + ticker.sent)
          /\ ticker.sent <= Len(ticker.entries)
          /\ \A k \in DOMAIN ticker.entries : ticker.entries[k] = lastApplied + k
          /\ ticker.entries # <<>> => lastApplied + Len(ticker.entries) <= commitIndex
    /\ ticker.pc \in {"index", "delivering"} => ticker.bytes = log.snapshot
    /\ ticker.pc = "delivering" => ticker.index = log.snapLastIdx
    /\ ticker.pc = "finish" => ServiceAt(log.snapLastIdx) /\ ~service.busy
    /\ ticker.pc # "sending" => ticker.sent = 0

\* The snapshot is of the entries up to its index: ahead of the service while
\* it is pending, and not otherwise.
SnapshotInv ==
    /\ log.snapshot = Entries(1, log.snapLastIdx)
    /\ snapPending => lastApplied < log.snapLastIdx
    /\ ~snapPending => log.snapLastIdx <= Len(service.state)
    /\ Len(service.state) <= commitIndex \/ Len(service.state) <= log.snapLastIdx

ApplyInv == TypeOK /\ Pending /\ Progress /\ SnapshotInv
=============================================================================
