----------------------------- MODULE AuditTrail ------------------------------
(***************************************************************************)
(* The two audit logs of the dispatchers (events.rs, redact.rs and the     *)
(* sinks of fxrun-dispatch): every event is scrubbed of the secrets and    *)
(* appended to the log of all events, then, when it is a decision of the   *)
(* policy, to the policy log.  An append is two writes, the text and its   *)
(* newline; either may fail, a server may be killed at any point, and      *)
(* another may write to the same files in between.  A text is a sequence   *)
(* of letters.                                                             *)
(***************************************************************************)
EXTENDS Integers, Sequences, SequencesExt

CONSTANTS Writers, MaxEvents, MaxFailures,
          MinSecretLen,     \* Redactor::MIN_SECRET_LEN
          Emitted,          \* the events that are made: an outcome and its detail, a text
          Configured        \* the strings a server is told to keep secret, in order

-----------------------------------------------------------------------------
(* What a dispatch may come to (events.rs): a decision of the policy or    *)
(* the end of a kernel, and the gate a refusal names.                      *)

\* Outcome::category.
Execution == {"Delegated", "KernelFailed", "KernelFatal", "DeadlineExceeded", "IdleTimeout"}

\* Outcome::denied_by, the gate of each refusal.
DeniedBy ==
    [ConstitutionViolated |-> "constitution", Unparseable |-> "wire", VerifyFailed |-> "wire", Malformed |-> "lint",
     ContentRejected |-> "scan", ForkRejected |-> "safety", ApprovalRequired |-> "approval",
     AuthorityDenied |-> "authority", TargetDenied |-> "targets", Quarantined |-> "quarantine",
     StateDeferred |-> "stategate", SingleFlightDenied |-> "singleflight", RateLimited |-> "ratelimit",
     LoopTripped |-> "loopguard", BudgetDenied |-> "governor"]

Outcome == Execution \cup DOMAIN DeniedBy
Category(outcome) == IF outcome \in Execution THEN "execution" ELSE "policy"

\* What the constants are, assumed by Audits.
AuditTrailConstants ==
    /\ {MaxEvents, MaxFailures} \subseteq Nat /\ MinSecretLen \in Nat \ {0}
    /\ \A e \in Emitted : e.outcome \in Outcome

VARIABLES
    emitting,       \* the event each server is writing, to which stream, and what of it is next
    secrets,        \* what the servers scrub
    log,            \* per stream, what was written: the texts of events, whole or torn, and newlines
    events,         \* the events there were, in the order they were made
    failures        \* the events whose writes did not all succeed

trailVars == <<emitting, secrets, log, events, failures>>

Stream == {"all", "policy"}

Placeholder == <<"*">>

-----------------------------------------------------------------------------
(* Redaction.                                                              *)

\* Faulty variant: in the order they came.
RegisterAsGiven(some, secret) ==
    IF Len(secret) < MinSecretLen \/ secret \in ToSet(some) THEN some ELSE Append(some, secret)

\* Redactor::register, in turn: long enough, not twice, the longest first and
\* otherwise in the order they came.
Register(some, secret) ==
    IF Len(secret) < MinSecretLen \/ secret \in ToSet(some) THEN some
    ELSE LET longer == SelectSeq(some, LAMBDA s : Len(s) >= Len(secret))
         IN  longer \o <<secret>> \o SelectSeq(some, LAMBDA s : Len(s) < Len(secret))

BuildRedactor(configured) == FoldLeft(Register, <<>>, configured)

OccursAt(part, text, i) == i + Len(part) - 1 <= Len(text) /\ SubSeq(text, i, i + Len(part) - 1) = part

\* str::replace: from the left, without overlap.
Replaced(text, secret) ==
    LET from[i \in 1 .. Len(text) + 1] ==
            IF i > Len(text) THEN <<>>
            ELSE IF OccursAt(secret, text, i) THEN Placeholder \o from[i + Len(secret)]
            ELSE <<text[i]>> \o from[i + 1]
    IN  from[1]

\* Redactor::redact.
Redact(some, text) == FoldLeft(Replaced, text, some)

-----------------------------------------------------------------------------
(* Events.                                                                 *)

\* DispatchEvent::untied and for_job; "by" and "nr" tell events apart.
DispatchEvent(s, nr, outcome, detail) ==
    [by |-> s, nr |-> nr, outcome |-> outcome, detail |-> detail,
     denied_by |-> IF outcome \in DOMAIN DeniedBy THEN {DeniedBy[outcome]} ELSE {}]

Idle == [stream |-> "none"]

TrailInit ==
    /\ emitting = [s \in Writers |-> Idle]
    /\ \E configured \in Configured : secrets = BuildRedactor(configured)
    /\ log = [stream \in Stream |-> <<>>]
    /\ events = <<>> /\ failures = {}

\* RedactingSink::emit: the detail is scrubbed before anything is written.
Emit ==
    /\ Len(events) < MaxEvents
    /\ \E s \in Writers, e \in Emitted :
          LET event == DispatchEvent(s, Len(events) + 1, e.outcome, e.detail)
              scrubbed == [event EXCEPT !.detail = Redact(secrets, @)]
          IN  /\ emitting[s] = Idle
              /\ events' = Append(events, event)
              /\ emitting' = [emitting EXCEPT ![s] = [event |-> scrubbed, stream |-> "all", part |-> "text"]]
    /\ UNCHANGED <<secrets, log, failures>>

Writing(s) == emitting[s].stream # "none"

\* Faulty variant: the policy stream takes every event.
PolicyTakesAny(event) == event.outcome \in Outcome

\* RoutingSink::emit, a stream at a time; the policy stream takes policy events only.
PolicyTakes(event) == Category(event.outcome) = "policy"
Onward(s) ==
    emitting' = [emitting EXCEPT ![s] =
                    IF @.stream = "all" /\ PolicyTakes(@.event)
                    THEN [event |-> @.event, stream |-> "policy", part |-> "text"] ELSE Idle]

Appends(s, kind) ==
    log' = [log EXCEPT ![emitting[s].stream] = Append(@, [kind |-> kind, event |-> emitting[s].event])]

\* FileSink::emit: writeln!() to a file without a buffer is a write of the text and
\* then one of the newline.
WriteText(s) ==
    /\ Writing(s) /\ emitting[s].part = "text"
    /\ Appends(s, "text")
    /\ emitting' = [emitting EXCEPT ![s] = [event |-> @.event, stream |-> @.stream, part |-> "newline"]]
    /\ UNCHANGED <<secrets, events, failures>>

WriteNewline(s) ==
    /\ Writing(s) /\ emitting[s].part = "newline"
    /\ Appends(s, "newline")
    /\ Onward(s)
    /\ UNCHANGED <<secrets, events, failures>>

\* A write does not happen, or what is written of a text is torn.
Fails(s) ==
    /\ Writing(s)
    /\ failures' = failures \cup {emitting[s].event.nr} /\ Cardinality(failures') <= MaxFailures
    /\ UNCHANGED log \/ (emitting[s].part = "text" /\ Appends(s, "torn"))
    /\ UNCHANGED <<secrets, events>>

\* The file cannot be opened or the disk is full: reported on stderr and forgotten,
\* and the next stream gets its turn.
WriteFails(s) == Fails(s) /\ Onward(s)

\* A server is killed with its event unfinished, and another takes its name.
KillWriter(s) == Fails(s) /\ emitting' = [emitting EXCEPT ![s] = Idle]

TrailDone == Len(events) = MaxEvents /\ (\A s \in Writers : ~Writing(s)) /\ UNCHANGED trailVars

TrailNext ==
    \/ Emit \/ TrailDone
    \/ \E s \in Writers : WriteText(s) \/ WriteNewline(s) \/ WriteFails(s) \/ KillWriter(s)

-----------------------------------------------------------------------------
\* The places of a text where a secret stands.
Places(text) == {p \in (DOMAIN text) \X (DOMAIN text) : p[1] <= p[2] /\ SubSeq(text, p[1], p[2]) \in ToSet(secrets)}
Within(p, q) == q[1] <= p[1] /\ p[2] <= q[2]

\* When no two secrets overlap but by one lying within the other, the outermost
\* are replaced and all else is kept.
Scrubbed(text) ==
    LET outermost == {p \in Places(text) : \A q \in Places(text) : Within(p, q) => p = q}
        kept[i \in 1 .. Len(text) + 1] ==
            IF i > Len(text) THEN <<>>
            ELSE IF \E p \in outermost : p[1] = i
                 THEN Placeholder \o kept[(CHOOSE p \in outermost : p[1] = i)[2] + 1]
                 ELSE <<text[i]>> \o kept[i + 1]
    IN  kept[1]

Untangled(text) ==
    \A p, q \in Places(text) : Within(p, q) \/ Within(q, p) \/ p[2] < q[1] \/ q[2] < p[1]

\* The places in a log where text of an event stands, whole or torn, and the events
\* that are being written.
Texts(stream, nr) == {i \in DOMAIN log[stream] : log[stream][i].event.nr = nr /\ log[stream][i].kind # "newline"}
Unfinished == {emitting[s].event.nr : s \in {t \in Writers : Writing(t)}}

\* The text at a place is whole and followed by its newline, with nothing in between
\* but what other servers wrote.
EndsItsLine(stream, i) ==
    \E k \in DOMAIN log[stream] :
        /\ i < k /\ log[stream][i].kind = "text"
        /\ log[stream][k] = [kind |-> "newline", event |-> log[stream][i].event]
        /\ \A j \in i + 1 .. k - 1 : log[stream][j].event.by # log[stream][i].event.by

\* The text at a place begins a line, or what it is glued to was left by a write that
\* failed or is a line that another server has yet to end.
BeginsItsLine(stream, i) ==
    \/ i = 1 \/ log[stream][i - 1].kind = "newline"
    \/ log[stream][i - 1].event.nr \in failures
    \/ log[stream][i - 1].event.by # log[stream][i].event.by

\* No log ever has the text of an event twice, and what stands of it in both is the
\* same.  An event no write of which failed is in the log of all events, and in the
\* policy log if and only if a gate denied it; its line is ended, and nothing spoils
\* it but a write that failed just before it or another server that writes meanwhile.
AuditTrailAgrees ==
    \A nr \in DOMAIN events :
        /\ \A stream \in Stream : \A i \in Texts(stream, nr) :
               /\ Texts(stream, nr) = {i} /\ BeginsItsLine(stream, i)
               /\ log[stream][i].event = [events[nr] EXCEPT !.detail = log[stream][i].event.detail]
               /\ nr \notin failures \cup Unfinished => EndsItsLine(stream, i)
        /\ \A i \in Texts("all", nr), k \in Texts("policy", nr) : log["all"][i].event = log["policy"][k].event
        /\ nr \notin failures \cup Unfinished =>
               /\ Texts("all", nr) # {}
               /\ Texts("policy", nr) # {} <=> events[nr].denied_by # {}

\* What stands in a log has no secret left in it and, but for secrets that overlap,
\* all that is none.
DetailsAreScrubbed ==
    \A stream \in Stream : \A i \in DOMAIN log[stream] :
        LET told == log[stream][i].event.detail
            given == events[log[stream][i].event.nr].detail
        IN  Places(told) = {} /\ (Untangled(given) => told = Scrubbed(given))
=============================================================================
