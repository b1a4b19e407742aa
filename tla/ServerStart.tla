----------------------------- MODULE ServerStart -----------------------------
(***************************************************************************)
(* How dispatchers come to serve one socket path (fxrun-dispatch main.rs): *)
(* a server checks its settings and the parent directory, looks at the     *)
(* path, removes a socket it finds there, binds and hardens its own, each  *)
(* a call of its own, while other servers start, servers are killed and an *)
(* operator works in the directory.                                        *)
(***************************************************************************)
EXTENDS Integers

CONSTANTS Servers, MaxStarts, MaxEdits

\* What the constants are, assumed by Audits.
ServerStartConstants == MaxStarts \in Nat /\ MaxEdits \in Nat

VARIABLES
    server,         \* the step every server is at
    path,           \* what the path names: nothing, a file, or a socket, who bound it, its mode
    private,        \* only the owner may enter the parent directory
    later,          \* the servers that had looked before the operator's file came
    lost,           \* a file was removed that was there when the server looked
    disturbed,      \* a kill or a step of the operator came after the last start that went well
    starts, edits   \* the starts and the operator's steps so far

startVars == <<server, path, private, later, lost, disturbed, starts, edits>>

Nothing == [kind |-> "none"]
Starting == {"parent", "look", "remove", "bind", "harden"}

StartInit ==
    /\ server = [s \in Servers |-> "off"]
    /\ path \in {Nothing, [kind |-> "file"], [kind |-> "socket", by |-> "gone", mode |-> "open"]}
    /\ private \in BOOLEAN
    /\ later = {} /\ lost = FALSE /\ disturbed = TRUE /\ starts = 0 /\ edits = 0

Goes(s, step) == server' = [server EXCEPT ![s] = step]

-----------------------------------------------------------------------------
\* main: without a key, or with rules it cannot parse, it serves nothing.
Configure(s) ==
    /\ server[s] = "off" /\ starts < MaxStarts /\ starts' = starts + 1
    /\ \E settings \in {"complete", "no key", "bad authority rules", "bad allowlist", "bad state gate"} :
          Goes(s, IF settings = "complete" THEN "parent" ELSE "off")
    /\ UNCHANGED <<path, private, later, lost, disturbed, edits>>

\* The parent must be private.
CheckParent(s) ==
    /\ server[s] = "parent" /\ Goes(s, IF private THEN "look" ELSE "off")
    /\ UNCHANGED <<path, private, later, lost, disturbed, starts, edits>>

\* symlink_metadata: only a socket is replaced.
Look(s) ==
    /\ server[s] = "look"
    /\ Goes(s, CASE path.kind = "none" -> "bind" [] path.kind = "socket" -> "remove" [] OTHER -> "off")
    /\ UNCHANGED <<path, private, later, lost, disturbed, starts, edits>>

\* remove_file removes what the path names by now, and fails when that is nothing.
Remove(s) ==
    /\ server[s] = "remove" /\ path' = Nothing
    /\ Goes(s, IF path.kind = "none" THEN "off" ELSE "bind")
    /\ lost' = (lost \/ (path.kind = "file" /\ s \notin later))
    /\ UNCHANGED <<private, later, disturbed, starts, edits>>

\* Faulty variant: a bind that fails takes the path away.
BindOrUnlink(s) ==
    /\ server[s] = "bind"
    /\ IF path.kind = "none"
       THEN Goes(s, "harden") /\ path' = [kind |-> "socket", by |-> s, mode |-> "open"]
       ELSE Goes(s, "off") /\ path' = Nothing
    /\ UNCHANGED <<private, later, lost, disturbed, starts, edits>>

Bind(s) ==
    /\ server[s] = "bind"
    /\ IF path.kind = "none"
       THEN Goes(s, "harden") /\ path' = [kind |-> "socket", by |-> s, mode |-> "open"]
       ELSE Goes(s, "off") /\ path' = path
    /\ UNCHANGED <<private, later, lost, disturbed, starts, edits>>

\* harden_bound_socket goes by the path: it fails when that names nothing, and
\* changes whatever has taken the socket's place.
Harden(s) ==
    /\ server[s] = "harden"
    /\ IF path.kind = "none" THEN Goes(s, "off") /\ path' = path
       ELSE /\ Goes(s, "serving")
            /\ path' = IF path.kind = "socket" THEN [path EXCEPT !.mode = "0600"] ELSE path
    /\ disturbed' = (disturbed /\ ~(path.kind = "socket" /\ path.by = s
                                       /\ \A t \in Servers \ {s} : server[t] \notin Starting))
    /\ UNCHANGED <<private, later, lost, starts, edits>>

-----------------------------------------------------------------------------
\* A server that is killed leaves its socket behind.
Kill(s) ==
    /\ server[s] # "off" /\ Goes(s, "off") /\ disturbed' = TRUE
    /\ UNCHANGED <<path, private, later, lost, starts, edits>>

Edit == edits < MaxEdits /\ edits' = edits + 1 /\ disturbed' = TRUE /\ UNCHANGED <<server, lost, starts>>

PutFile ==
    /\ Edit /\ path.kind = "none" /\ path' = [kind |-> "file"]
    /\ later' = {s \in Servers : server[s] = "remove"}
    /\ UNCHANGED private

TakeAway == Edit /\ path.kind # "none" /\ path' = Nothing /\ UNCHANGED <<private, later>>

ChangeParent == Edit /\ private' = ~private /\ UNCHANGED <<path, later>>

StartDone == starts = MaxStarts /\ (\A s \in Servers : server[s] \in {"off", "serving"}) /\ UNCHANGED startVars

StartNext ==
    \/ \E s \in Servers : \/ Configure(s) \/ CheckParent(s) \/ Look(s) \/ Remove(s) \/ Bind(s) \/ Harden(s) \/ Kill(s)
    \/ PutFile \/ TakeAway \/ ChangeParent \/ StartDone

-----------------------------------------------------------------------------
\* Between starts, when nothing was killed or edited since one went well, the path
\* is a hardened socket of a server that serves, though others were starting, failing
\* and replacing each other's sockets meanwhile; and a file that was at the path when
\* a server looked is never removed by it.
ServerIsReachable ==
    /\ ~lost
    /\ ~disturbed /\ (\A s \in Servers : server[s] \notin Starting) =>
          path.kind = "socket" /\ path.mode = "0600" /\ path.by \in Servers /\ server[path.by] = "serving"
=============================================================================
