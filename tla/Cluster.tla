------------------------------ MODULE Cluster ------------------------------
(***************************************************************************)
(* The master-slave layer (Libbase/masterslave.cpp over socket.cpp): the   *)
(* master's table of connections, the two byte streams of every            *)
(* connection, and the process at the far end of each.  One member of      *)
(* Slaves is one slave process with the one connection it ever opens; a    *)
(* machine whose slave is restarted is another member.                     *)
(*                                                                         *)
(* A token of a stream stands for the whole group of writes one call makes *)
(* (a tag with its key and argument; digest, parameter, sample count and   *)
(* state of a result): a reader that finds the first byte of a group       *)
(* blocks for the rest, and gets an error if the peer dies first.          *)
(***************************************************************************)
EXTENDS Naturals, Sequences, FiniteSets

CONSTANTS
  Slaves,       \* the slave processes that may ever be started
  NumPoints,    \* the number of parameter values of the sweep
  Batches,      \* the numbers of samples a slave may draw in its 500 ms
  Backlog,      \* the length of the listening socket's queue
  Faults        \* the faults that may happen: "crash", "hang", "sigint"

ASSUME NumPointsAssumption == NumPoints \in Nat \ {0}
ASSUME BatchesAssumption == Batches \subseteq Nat \ {0}
ASSUME BacklogAssumption == Backlog \in Nat \ {0}
ASSUME FaultsAssumption == Faults \subseteq {"crash", "hang", "sigint"}

VARIABLES
  open,      \* the master process exists, hence its sockets are open
  backlog,   \* connections made by slaves and not yet accepted
  smap,      \* the master's map from sockets to states ("none": not a key)
  down,      \* tokens the master wrote that the slave has not read
  up,        \* tokens the slave wrote that the master has not read
  slave,     \* where each slave process is
  code,      \* the slave holds a deserialised system
  param      \* the parameter set in that system (0: none yet)

clusterVars == <<open, backlog, smap, down, up, slave, code, param>>
linkVars == <<down, up, slave, code, param>>

Points == 1..NumPoints

SlaveState == {"off", "ready", "working", "hung", "ended", "failed"}
MasterView == {"none", "new", "eventpending", "idle", "working"}

GetCode == [tag |-> "slave_getcode", point |-> 0]
GetParameter(p) == [tag |-> "slave_getparameter", point |-> p]
Work == [tag |-> "slave_work", point |-> 0]
GetCpuTime == [tag |-> "getcputime", point |-> 0]
Die == [tag |-> "die", point |-> 0]

Request == {GetCode, Work, GetCpuTime, Die} \cup {GetParameter(p) : p \in Points}

Result(p, n) == [tag |-> "result", point |-> p, count |-> n]
CpuTime == [tag |-> "cputime", point |-> 0, count |-> 0]

Reply == {CpuTime} \cup {Result(p, n) : p \in 0..NumPoints, n \in Batches}

ClusterTypeOK ==
  /\ open \in BOOLEAN
  /\ backlog \subseteq Slaves
  /\ smap \in [Slaves -> MasterView]
  /\ down \in [Slaves -> Seq(Request)]
  /\ up \in [Slaves -> Seq(Reply)]
  /\ slave \in [Slaves -> SlaveState]
  /\ code \in [Slaves -> BOOLEAN]
  /\ param \in [Slaves -> 0..NumPoints]

ClusterInit ==
  /\ open = TRUE
  /\ backlog = {}
  /\ smap = [s \in Slaves |-> "none"]
  /\ down = [s \in Slaves |-> <<>>]
  /\ up = [s \in Slaves |-> <<>>]
  /\ slave = [s \in Slaves |-> "off"]
  /\ code = [s \in Slaves |-> FALSE]
  /\ param = [s \in Slaves |-> 0]

(* The process has exited or crashed, so its end of the stream is closed.  *)
Gone(s) == slave[s] \in {"ended", "failed"}

(* The process still runs its loop.                                        *)
Alive(s) == slave[s] \in {"ready", "working"}

(***************************************************************************)
(* The slave process                                                       *)
(***************************************************************************)
Connect(s) ==
  /\ slave[s] = "off"
  /\ open
  /\ Cardinality(backlog) < Backlog
  /\ slave' = [slave EXCEPT ![s] = "ready"]
  /\ backlog' = backlog \cup {s}
  /\ UNCHANGED <<open, smap, down, up, code, param>>

(* connect() gives up after its retries: exit(1).                          *)
ConnectFails(s) ==
  /\ slave[s] = "off"
  /\ ~open \/ Cardinality(backlog) >= Backlog
  /\ slave' = [slave EXCEPT ![s] = "failed"]
  /\ UNCHANGED <<open, backlog, smap, down, up, code, param>>

(* gettag() has returned: the slave consumes the request at the head of    *)
(* its stream.                                                             *)
Reads(s, tag) ==
  /\ slave[s] = "ready"
  /\ down[s] # <<>>
  /\ Head(down[s]).tag = tag
  /\ down' = [down EXCEPT ![s] = Tail(@)]

SlaveGetCode(s) ==
  /\ Reads(s, "slave_getcode")
  /\ code' = [code EXCEPT ![s] = TRUE]
  /\ param' = [param EXCEPT ![s] = 0]
  /\ UNCHANGED <<open, backlog, smap, up, slave>>

SlaveGetParameter(s) ==
  /\ Reads(s, "slave_getparameter")
  /\ param' = [param EXCEPT ![s] = Head(down[s]).point]
  /\ UNCHANGED <<open, backlog, smap, up, slave, code>>

SlaveWork(s) ==
  /\ Reads(s, "slave_work")
  /\ slave' = [slave EXCEPT ![s] = "working"]
  /\ UNCHANGED <<open, backlog, smap, up, code, param>>

(* The end of slave_work: digest, parameter, sample count and state go     *)
(* back.                                                                   *)
SlaveReturn(s, n) ==
  /\ slave[s] = "working"
  /\ open
  /\ slave' = [slave EXCEPT ![s] = "ready"]
  /\ up' = [up EXCEPT ![s] = Append(@, Result(param[s], n))]
  /\ UNCHANGED <<open, backlog, smap, down, code, param>>

SlaveSendCpuTime(s) ==
  /\ Reads(s, "getcputime")
  /\ up' = [up EXCEPT ![s] = Append(@, CpuTime)]
  /\ UNCHANGED <<open, backlog, smap, slave, code, param>>

SlaveDie(s) ==
  /\ Reads(s, "die")
  /\ slave' = [slave EXCEPT ![s] = "ended"]
  /\ UNCHANGED <<open, backlog, smap, up, code, param>>

(* Mutant: a slave that is sampling is not stopped by the lost stream.     *)
SlaveLosesMasterWhenIdle(s) ==
  /\ slave[s] = "ready"
  /\ ~open
  /\ slave' = [slave EXCEPT ![s] = "failed"]
  /\ UNCHANGED <<open, backlog, smap, down, up, code, param>>

(* A read or a write on the stream of a master that has exited fails: the  *)
(* runtime_error ends the process with exit(1).  The reset that closes the *)
(* stream may destroy requests not yet read.                               *)
SlaveLosesMaster(s) ==
  /\ Alive(s)
  /\ ~open
  /\ slave' = [slave EXCEPT ![s] = "failed"]
  /\ down' = [down EXCEPT ![s] = <<>>]
  /\ UNCHANGED <<open, backlog, smap, up, code, param>>

(* The slave is killed or its link breaks; a suffix of what it sent is     *)
(* lost.                                                                   *)
Crash(s) ==
  /\ "crash" \in Faults
  /\ slave[s] \in {"ready", "working", "hung"}
  /\ slave' = [slave EXCEPT ![s] = "failed"]
  /\ down' = [down EXCEPT ![s] = <<>>]
  /\ \E k \in 0..Len(up[s]) : up' = [up EXCEPT ![s] = SubSeq(@, 1, k)]
  /\ UNCHANGED <<open, backlog, smap, code, param>>

(* The machine locks up while its TCP stack still acknowledges.            *)
Hang(s) ==
  /\ "hang" \in Faults
  /\ Alive(s)
  /\ slave' = [slave EXCEPT ![s] = "hung"]
  /\ UNCHANGED <<open, backlog, smap, down, up, code, param>>

SlaveProcess(s) ==
  \/ SlaveGetCode(s)
  \/ SlaveGetParameter(s)
  \/ SlaveWork(s)
  \/ \E n \in Batches : SlaveReturn(s, n)
  \/ SlaveSendCpuTime(s)
  \/ SlaveDie(s)
  \/ SlaveLosesMaster(s)

SlaveNext(s) ==
  \/ Connect(s)
  \/ ConnectFails(s)
  \/ SlaveProcess(s)
  \/ Crash(s)
  \/ Hang(s)

(***************************************************************************)
(* What the master calls                                                   *)
(***************************************************************************)
Connected == {s \in Slaves : smap[s] # "none"}
InState(v) == {s \in Slaves : smap[s] = v}

(* The sockets select() reports: data to read, or an end of file.          *)
Readable == {s \in Connected : up[s] # <<>> \/ Gone(s)}

(* A write to a slave that is gone may still be taken by the local stack;  *)
(* to any other it succeeds and arrives.                                   *)
Deliver(s, msgs) ==
  down' = IF Gone(s) THEN down ELSE [down EXCEPT ![s] = @ \o msgs]

(* send(s, ...) returns, and s is left in state v ...                      *)
SendAs(s, msgs, v) ==
  /\ Deliver(s, msgs)
  /\ smap' = [smap EXCEPT ![s] = v]

(* ... or fails: close(s) erases s from smap and the runtime_error unwinds *)
(* to the caller.                                                          *)
SendFails(s) ==
  /\ Gone(s)
  /\ smap' = [smap EXCEPT ![s] = "none"]
  /\ UNCHANGED down

(* Mutant: the token stays in the stream.                                  *)
Peeks(s, tag) ==
  /\ up[s] # <<>>
  /\ Head(up[s]).tag = tag
  /\ UNCHANGED up

(* receive(s, ...) finds the next token of the stream ...                  *)
Receives(s, tag) ==
  /\ up[s] # <<>>
  /\ Head(up[s]).tag = tag
  /\ up' = [up EXCEPT ![s] = Tail(@)]

(* ... or the end of the stream.                                           *)
ReceiveFails(s) ==
  /\ up[s] = <<>>
  /\ Gone(s)
  /\ smap' = [smap EXCEPT ![s] = "none"]

(* Mutant: the slave that answered late is left marked as working.         *)
ResetSlaveToWorking(s) == smap' = [smap EXCEPT ![s] = "working"]

(* resetslave(s)                                                           *)
ResetSlave(s) == smap' = [smap EXCEPT ![s] = "new"]

(* Mutants: working slaves are reset too; idle ones keep their parameter.  *)
ResetAllSlaves == smap' = [s \in Slaves |-> IF smap[s] = "none" THEN "none" ELSE "new"]
ResetNoSlaves == UNCHANGED smap

(* resetslaves(): every idle slave becomes new.                            *)
ResetSlaves ==
  smap' = [s \in Slaves |-> IF smap[s] = "idle" THEN "new" ELSE smap[s]]

(* Mutant: a new connection is taken for an initialised one.               *)
WaitForEventIdle ==
  \E new \in {{}} \cup {{s} : s \in backlog} :
    /\ new = {} => backlog = {}
    /\ smap' = [s \in Slaves |->
                  IF s \in new THEN "idle"
                  ELSE IF s \in Readable THEN "eventpending" ELSE smap[s]]
    /\ backlog' = backlog \ new

(* waitforevent(true, 0.5): accept one connection if the listener is       *)
(* ready, mark the ready slaves; on a timeout nothing is ready.            *)
WaitForEvent ==
  \E new \in {{}} \cup {{s} : s \in backlog} :
    /\ new = {} => backlog = {}
    /\ smap' = [s \in Slaves |->
                  IF s \in new THEN "new"
                  ELSE IF s \in Readable THEN "eventpending"
                  ELSE smap[s]]
    /\ backlog' = backlog \ new

(* The same after a select() that a signal cut short: its result is not    *)
(* looked at and the descriptor set still holds every socket, so accept()  *)
(* is called with nobody to accept, and every slave is marked ready.       *)
AcceptThenMarkAll(new) ==
  /\ new \in backlog
  /\ smap' = [s \in Slaves |->
                IF s = new THEN "new"
                ELSE IF s \in Connected THEN "eventpending"
                ELSE "none"]
  /\ backlog' = backlog \ {new}
=============================================================================
