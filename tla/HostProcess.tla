----------------------------- MODULE HostProcess -----------------------------
(***************************************************************************)
(* How apps find, start and adopt the one host of a data root, and how a   *)
(* host takes and leaves it: crates/sirio_host_client/src/ensure.rs and    *)
(* observe.rs, crates/sirio_host/src/lifecycle.rs, and the verdict of      *)
(* crates/sirio_host_protocol/src/liveness.rs.                             *)
(*                                                                         *)
(* The data root holds three files.  The lock file is never removed but    *)
(* with the root, so the root's number identifies it, and a host that      *)
(* opened it keeps the lock of a root that is gone, though it makes its    *)
(* files in the one that is there.  The endpoint and the state file are    *)
(* named by the host that made them: its inode, its generation and its     *)
(* process.                                                                *)
(***************************************************************************)
EXTENDS Naturals, FiniteSets

CONSTANTS
  Client,      \* apps that share the data root
  MaxHosts,    \* bound: host processes ever started
  MaxEnsure,   \* bound: calls of ensure_host
  MaxFault,    \* bound: faults of all kinds in a behaviour
  CanGiveUp,   \* a client may reach UNVERIFIABLE_WAIT or START_WAIT
  None         \* no file, nobody

ASSUME HostProcessAssumption ==
  /\ MaxHosts \in Nat /\ MaxEnsure \in Nat /\ MaxFault \in Nat
  /\ CanGiveUp \in BOOLEAN
  /\ None \notin Client /\ None \notin Nat /\ Client \cap Nat = {}

Host == 1..MaxHosts
Root == 0..MaxFault

VARIABLES
  root,       \* the root that is there now
  lock,       \* root -> who holds its lock
  endpoint,   \* whose socket is at the endpoint's path
  state,      \* whose state file is in the root
  host,       \* host -> how far its process is, and what it locked, bound and read
  client,     \* client -> how far its ensure_host is, and what it saw
  ensures,    \* calls of ensure_host
  crashes,    \* hosts killed, or that could not write their state
  silences    \* handshakes a host did not answer in time

vars == <<root, lock, endpoint, state, host, client, ensures, crashes, silences>>

(* `root`: the root whose lock it opened.  `bound`: the identity it keeps of the
   endpoint.  Two are history: `made`, the root it made its last file in, and
   `saw`, the one that was there when it opened the lock and, once it leaves,
   when it read the state file. *)
HostState ==
  [ pc : {"unborn", "spawned", "locking", "locked", "stale", "probed", "bound", "named",
          "ready", "undo", "leaving", "closed", "owner", "unlink", "forget", "draining", "dead"},
    root : Root, bound : Host \cup {None}, made : Root, saw : Root ]

(* `seen`: the state file it read.  `answered`: the handshake.  `held`: the lock.
   `before` is history: who held the lock when the observation began. *)
ClientState ==
  [ pc : {"idle", "observe", "ask", "probe", "unlock", "judge", "connect", "start",
          "await", "session"},
    seen : Host \cup {None}, answered : BOOLEAN, held : BOOLEAN,
    before : Host \cup Client \cup {None}, root : Root, host : Host \cup {None} ]

NewHost == [pc |-> "unborn", root |-> 0, bound |-> None, made |-> 0, saw |-> 0]
IdleClient == [pc |-> "idle", seen |-> None, answered |-> FALSE, held |-> FALSE,
               before |-> None, root |-> 0, host |-> None]

Init ==
  /\ root = 0 /\ lock = [r \in Root |-> None] /\ endpoint = None /\ state = None
  /\ host = [h \in Host |-> NewHost]
  /\ client = [c \in Client |-> IdleClient]
  /\ ensures = 0 /\ crashes = 0 /\ silences = 0

(* Faults: roots removed, hosts lost, handshakes late. *)
FaultLeft == root + crashes + silences < MaxFault

(* A socket that listens lets a client connect; a host answers between its
   state file and its decision to leave. *)
Listening(h) == host[h].pc \in {"bound", "named", "ready", "undo", "leaving"}
Serving(h)   == host[h].pc = "ready"
Alive(h)     == host[h].pc \notin {"unborn", "dead"}

HostAt(h, pc)   == [host EXCEPT ![h].pc = pc]
Dies(h)         == [host EXCEPT ![h] = [NewHost EXCEPT !.pc = "dead"]]
ClientAt(c, pc) == [client EXCEPT ![c].pc = pc]
(* What an observation saw is of use until its verdict. *)
Restarts(c, pc) == [client EXCEPT ![c] = [IdleClient EXCEPT !.pc = pc]]
Meets(c, h)     == [client EXCEPT ![c] = [IdleClient EXCEPT !.pc = "session", !.host = h]]
Unlocked(h)     == [r \in Root |-> IF lock[r] = h THEN None ELSE lock[r]]

-----------------------------------------------------------------------------
(* lifecycle.rs run. *)

(* The root is made and the lock file opened; acquire_lock then tries. *)
OpenLock(h) ==
  /\ host[h].pc = "spawned"
  /\ host' = [host EXCEPT ![h] = [pc |-> "locking", root |-> root, bound |-> None,
                                  made |-> root, saw |-> root]]
  /\ UNCHANGED <<root, lock, endpoint, state, client, ensures, crashes, silences>>

(* Mutated: the lock is shared. *)
AcquireLock_Shared(h) ==
  /\ host[h].pc = "locking"
  /\ lock' = [lock EXCEPT ![host[h].root] = h]
  /\ host' = HostAt(h, "locked")
  /\ UNCHANGED <<root, endpoint, state, client, ensures, crashes, silences>>

AcquireLock(h) ==
  /\ host[h].pc = "locking"
  /\ lock[host[h].root] = None
  /\ lock' = [lock EXCEPT ![host[h].root] = h]
  /\ host' = HostAt(h, "locked")
  /\ UNCHANGED <<root, endpoint, state, client, ensures, crashes, silences>>

(* LOCK_RETRY is over: another host won.  A client's probe is shorter. *)
LoseLock(h) ==
  /\ host[h].pc = "locking"
  /\ lock[host[h].root] \in Host
  /\ host' = Dies(h)
  /\ UNCHANGED <<root, lock, endpoint, state, client, ensures, crashes, silences>>

(* Binding: a socket that listens is left alone, *)
ProbeEndpoint(h) ==
  /\ host[h].pc = "locked"
  /\ IF endpoint # None /\ Listening(endpoint)
       THEN host' = Dies(h) /\ lock' = Unlocked(h)
       ELSE host' = HostAt(h, "stale") /\ UNCHANGED lock
  /\ UNCHANGED <<root, endpoint, state, client, ensures, crashes, silences>>

(* anything else at the path is removed, *)
RemoveStale(h) ==
  /\ host[h].pc = "stale"
  /\ endpoint' = None
  /\ host' = HostAt(h, "probed")
  /\ UNCHANGED <<root, lock, state, client, ensures, crashes, silences>>

(* and the socket is renamed to it, over whatever has come there since. *)
Bind(h) ==
  /\ host[h].pc = "probed"
  /\ endpoint' = h
  /\ host' = [host EXCEPT ![h].pc = "bound", ![h].made = root]
  /\ UNCHANGED <<root, lock, state, client, ensures, crashes, silences>>

(* file_identity, of what is at the path by then. *)
Identify(h) ==
  /\ host[h].pc = "bound"
  /\ host' = [host EXCEPT ![h].pc = "named", ![h].bound = endpoint]
  /\ UNCHANGED <<root, lock, endpoint, state, client, ensures, crashes, silences>>

Publish(h) ==
  /\ host[h].pc = "named"
  /\ state' = h
  /\ host' = [host EXCEPT ![h].pc = "ready", ![h].made = root]
  /\ UNCHANGED <<root, lock, endpoint, client, ensures, crashes, silences>>

(* remove_bound_endpoint compares before it removes. *)
IsBound(h) == host[h].bound # None /\ endpoint = host[h].bound

(* The state file cannot be written: the endpoint goes, if it is still its own, *)
PublishFails(h) ==
  /\ host[h].pc = "named" /\ FaultLeft
  /\ crashes' = crashes + 1
  /\ IF IsBound(h) THEN host' = HostAt(h, "undo") /\ UNCHANGED lock
                   ELSE host' = Dies(h) /\ lock' = Unlocked(h)
  /\ UNCHANGED <<root, endpoint, state, client, ensures, silences>>

(* and the host with it. *)
UndoBind(h) ==
  /\ host[h].pc = "undo"
  /\ endpoint' = None
  /\ host' = Dies(h) /\ lock' = Unlocked(h)
  /\ UNCHANGED <<root, state, client, ensures, crashes, silences>>

(* No client for 60 s.  A client that found the lock free, and one that waits
   for the host it started, take less. *)
IdleExit(h) ==
  /\ Serving(h)
  /\ \A c \in Client : client[c].host # h
  /\ \A c \in Client : client[c].pc \notin {"unlock", "judge", "start", "await"}
  /\ host' = HostAt(h, "leaving")
  /\ UNCHANGED <<root, lock, endpoint, state, client, ensures, crashes, silences>>

StopAccepting(h) ==
  /\ host[h].pc = "leaving"
  /\ host' = HostAt(h, "closed")
  /\ UNCHANGED <<root, lock, endpoint, state, client, ensures, crashes, silences>>

(* Mutated: the generation of the state file is not compared. *)
ReadOwnState_Any(h) ==
  /\ host[h].pc = "closed"
  /\ host' = [host EXCEPT ![h].pc = IF state # None THEN "owner" ELSE "draining",
                          ![h].saw = root]
  /\ UNCHANGED <<root, lock, endpoint, state, client, ensures, crashes, silences>>

(* remove_own_files: whether the state file is this host's, *)
ReadOwnState(h) ==
  /\ host[h].pc = "closed"
  /\ host' = [host EXCEPT ![h].pc = IF state = h THEN "owner" ELSE "draining",
                          ![h].saw = root]
  /\ UNCHANGED <<root, lock, endpoint, state, client, ensures, crashes, silences>>

(* whether the endpoint is, *)
CompareEndpoint(h) ==
  /\ host[h].pc = "owner"
  /\ host' = HostAt(h, IF IsBound(h) THEN "unlink" ELSE "forget")
  /\ UNCHANGED <<root, lock, endpoint, state, client, ensures, crashes, silences>>

(* and what is at their paths by then goes. *)
RemoveEndpoint(h) ==
  /\ host[h].pc = "unlink"
  /\ endpoint' = None
  /\ host' = HostAt(h, "forget")
  /\ UNCHANGED <<root, lock, state, client, ensures, crashes, silences>>

RemoveState(h) ==
  /\ host[h].pc = "forget"
  /\ state' = None
  /\ host' = HostAt(h, "draining")
  /\ UNCHANGED <<root, lock, endpoint, client, ensures, crashes, silences>>

Exit(h) ==
  /\ host[h].pc = "draining"
  /\ host' = Dies(h) /\ lock' = Unlocked(h)
  /\ UNCHANGED <<root, endpoint, state, client, ensures, crashes, silences>>

(* Killed: the kernel lets the lock go, the files stay. *)
Crash(h) ==
  /\ FaultLeft /\ Alive(h)
  /\ crashes' = crashes + 1
  /\ host' = Dies(h) /\ lock' = Unlocked(h)
  /\ UNCHANGED <<root, endpoint, state, client, ensures, silences>>

-----------------------------------------------------------------------------
(* ensure_major. *)

Ensure(c) ==
  /\ client[c].pc = "idle" /\ ensures < MaxEnsure
  /\ ensures' = ensures + 1
  /\ client' = Restarts(c, "observe")
  /\ UNCHANGED <<root, lock, endpoint, state, host, crashes, silences>>

(* observe: the state file, the handshake, the lock and, last, the process. *)
ReadState(c) ==
  /\ client[c].pc = "observe"
  /\ client' = [client EXCEPT ![c] = [IdleClient EXCEPT !.pc = "ask", !.seen = state,
                                                       !.before = lock[root]]]
  /\ UNCHANGED <<root, lock, endpoint, state, host, ensures, crashes, silences>>

Answers == endpoint # None /\ Serving(endpoint)

Ask(c) ==
  /\ client[c].pc = "ask"
  /\ \/ client' = [client EXCEPT ![c].pc = "probe", ![c].answered = Answers] /\ UNCHANGED silences
     \/ /\ Answers /\ FaultLeft
        /\ client' = [client EXCEPT ![c].pc = "probe", ![c].answered = FALSE]
        /\ silences' = silences + 1
  /\ UNCHANGED <<root, lock, endpoint, state, host, ensures, crashes>>

(* try_lock, and unlock at once when it succeeds. *)
ProbeLock(c) ==
  /\ client[c].pc = "probe"
  /\ IF lock[root] = None
       THEN /\ lock' = [lock EXCEPT ![root] = c]
            /\ client' = [client EXCEPT ![c].pc = "unlock", ![c].root = root]
       ELSE /\ client' = [client EXCEPT ![c].pc = "judge", ![c].held = TRUE]
            /\ UNCHANGED lock
  /\ UNCHANGED <<root, endpoint, state, host, ensures, crashes, silences>>

ReleaseProbe(c) ==
  /\ client[c].pc = "unlock"
  /\ lock' = [lock EXCEPT ![client[c].root] = None]
  /\ client' = ClientAt(c, "judge")
  /\ UNCHANGED <<root, endpoint, state, host, ensures, crashes, silences>>

(* Mutated: a host that does not answer is absent unless its process is seen. *)
Verdict_IgnoresLock(c) ==
  IF client[c].answered THEN "Live"
  ELSE IF client[c].seen # None /\ Alive(client[c].seen) THEN "Unverifiable"
  ELSE "Absent"

(* liveness.rs verdict, and observe_process of the process that was recorded. *)
Verdict(c) ==
  IF client[c].answered THEN "Live"
  ELSE IF client[c].held \/ (client[c].seen # None /\ Alive(client[c].seen)) THEN "Unverifiable"
  ELSE "Absent"

Judge(c) ==
  /\ client[c].pc = "judge"
  /\ client' = CASE Verdict(c) = "Live"         -> Restarts(c, "connect")
                 [] Verdict(c) = "Unverifiable" -> Restarts(c, "observe")
                 [] Verdict(c) = "Absent"       ->
                      [client EXCEPT ![c] = [IdleClient EXCEPT !.pc = "start",
                                                               !.before = client[c].before]]
  /\ UNCHANGED <<root, lock, endpoint, state, host, ensures, crashes, silences>>

(* Mutated: whoever is at the endpoint is taken to answer. *)
Connect_Unchecked(c) ==
  /\ client[c].pc = "connect"
  /\ client' = Meets(c, endpoint)
  /\ UNCHANGED <<root, lock, endpoint, state, host, ensures, crashes, silences>>

(* Mutated: a host that left meanwhile is waited for. *)
Connect_Waits(c) ==
  /\ client[c].pc = "connect"
  /\ client' = IF Answers THEN Meets(c, endpoint)
               ELSE Restarts(c, "await")
  /\ UNCHANGED <<root, lock, endpoint, state, host, ensures, crashes, silences>>

(* Welcomed, or observed again. *)
Connect(c) ==
  /\ client[c].pc = "connect"
  /\ client' = IF Answers THEN Meets(c, endpoint)
               ELSE Restarts(c, "observe")
  /\ UNCHANGED <<root, lock, endpoint, state, host, ensures, crashes, silences>>

(* A candidate is spawned.  The files of a host that is gone are left to it. *)
Unborn == { h \in Host : host[h].pc = "unborn" }

(* Mutated: the client clears the endpoint and the state file first. *)
Start_Clears(c) ==
  /\ client[c].pc = "start" /\ Unborn # {}
  /\ endpoint' = None /\ state' = None
  /\ host' = HostAt(CHOOSE h \in Unborn : \A g \in Unborn : h <= g, "spawned")
  /\ client' = Restarts(c, "await")
  /\ UNCHANGED <<root, lock, ensures, crashes, silences>>

Start(c) ==
  /\ client[c].pc = "start" /\ Unborn # {}
  /\ host' = HostAt(CHOOSE h \in Unborn : \A g \in Unborn : h <= g, "spawned")
  /\ client' = Restarts(c, "await")
  /\ UNCHANGED <<root, lock, endpoint, state, ensures, crashes, silences>>

(* Whoever answers at the endpoint is adopted, the candidate or another. *)
Adopt(c) ==
  /\ client[c].pc = "await" /\ Answers
  /\ client' = Meets(c, endpoint)
  /\ UNCHANGED <<root, lock, endpoint, state, host, ensures, crashes, silences>>

(* Unverifiable or StartTimeout. *)
GiveUp(c) ==
  /\ CanGiveUp /\ client[c].pc \in {"observe", "await"}
  /\ client' = [client EXCEPT ![c] = IdleClient]
  /\ UNCHANGED <<root, lock, endpoint, state, host, ensures, crashes, silences>>

(* The app quits. *)
Quit(c) ==
  /\ client[c].pc = "session"
  /\ client' = [client EXCEPT ![c] = IdleClient]
  /\ UNCHANGED <<root, lock, endpoint, state, host, ensures, crashes, silences>>

(* Somebody removes the data root, and it is made again. *)
Wipe ==
  /\ FaultLeft
  /\ root' = root + 1
  /\ endpoint' = None /\ state' = None
  /\ UNCHANGED <<lock, host, client, ensures, crashes, silences>>

HostStep(h) ==
  \/ OpenLock(h) \/ AcquireLock(h) \/ LoseLock(h) \/ ProbeEndpoint(h) \/ RemoveStale(h)
  \/ Bind(h) \/ Identify(h) \/ Publish(h) \/ UndoBind(h)
  \/ StopAccepting(h) \/ ReadOwnState(h) \/ CompareEndpoint(h) \/ RemoveEndpoint(h)
  \/ RemoveState(h) \/ Exit(h)

ClientStep(c) ==
  \/ ReadState(c) \/ Ask(c) \/ ProbeLock(c) \/ ReleaseProbe(c) \/ Judge(c)
  \/ Connect(c) \/ Start(c) \/ Adopt(c)

Next ==
  \/ \E h \in Host : HostStep(h) \/ PublishFails(h) \/ IdleExit(h) \/ Crash(h)
  \/ \E c \in Client : ClientStep(c) \/ Ensure(c) \/ GiveUp(c) \/ Quit(c)
  \/ Wipe

(* Fairness: processes run.  Nobody has to quit, to idle out or to crash.  A
   candidate gets the lock if it is let go again and again within its retries. *)
Fairness ==
  /\ \A h \in Host : WF_vars(HostStep(h)) /\ SF_vars(AcquireLock(h))
  /\ \A c \in Client : WF_vars(ClientStep(c))

Spec == Init /\ [][Next]_vars
FairSpec == Spec /\ Fairness

-----------------------------------------------------------------------------
(* Type invariant: files name hosts, the lock names who holds it, and a client
   that has a session got it from a host (ensure_host). *)
TypeOK ==
  /\ root \in Root /\ lock \in [Root -> Host \cup Client \cup {None}]
  /\ endpoint \in Host \cup {None} /\ state \in Host \cup {None}
  /\ host \in [Host -> HostState] /\ client \in [Client -> ClientState]
  /\ \A c \in Client : client[c].pc = "session" => client[c].host # None
  /\ ensures \in 0..MaxEnsure /\ crashes \in 0..MaxFault /\ silences \in 0..MaxFault

(* Two hosts that listen hold the locks of different roots, the lock being taken
   before binding and kept until the files are gone (run, remove_own_files); so
   two of them listen in one root only if the root one of them had locked was
   removed before it bound there, which run does not look at again. *)
OneServer ==
  \A h, g \in Host :
    Listening(h) /\ Listening(g) /\ h # g =>
      /\ host[h].root # host[g].root
      /\ host[h].made = host[g].made =>
           host[h].root # host[h].made \/ host[g].root # host[g].made

(* As long as nobody removed the root, the host that serves it can be found: by
   its socket and, when it does not answer, by the process its state file
   records (Publish before it serves, remove_own_files once it does not). *)
ServerIsRecorded ==
  root = 0 => \A h \in Host : Serving(h) => endpoint = h /\ state = h

(* The files a host made are in the root it locked. *)
AtHome(h) == host[h].made = host[h].root

(* "Only what is still this host's own goes: a root removed and re-created under
   a running host holds a successor's files by now" (lifecycle.rs): what a host
   that serves in its root has there is touched by no client and by no other
   host, of this root or of one that is gone.  Not asked of a host whose root
   was removed while it started, nor where it was removed since that other host
   read the state file: comparing and removing are two steps, and only the lock
   of the old root is held through both. *)
ServedFilesStay ==
  [][\A h \in Host :
       /\ Serving(h) /\ Serving(h)' /\ AtHome(h) /\ root' = root
       /\ \A g \in Host : host'[g] # host[g] => AtHome(g) /\ host[g].saw = root
       => (endpoint = h => endpoint' = h) /\ (state = h => state' = h)]_vars

(* "Loss of contact is never evidence that a process is dead" (liveness.rs): a
   client that is about to start a candidate has not overlooked a host that
   held the root's lock from before the client began to look until now, whether
   it serves, starts or hangs. *)
SilentIsNotAbsent ==
  \A c \in Client : client[c].pc = "start" =>
    ~ (client[c].before \in Host /\ lock[root] = client[c].before)

(* An ensure_host ends with a session, through lost races, probes of the lock,
   hosts that leave and handshakes that are late, unless its time is over, a
   host was killed or the root was removed under it. *)
EnsureSucceeds ==
  \A c \in Client :
    client[c].pc = "observe" ~> (client[c].pc \in {"session", "idle"} \/ crashes > 0 \/ root > 0)
=============================================================================
