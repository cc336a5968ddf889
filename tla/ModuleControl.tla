--------------------------- MODULE ModuleControl ---------------------------
(***************************************************************************)
(* A module control request from the telnet module to the CPU and its      *)
(* confirmation back (go/telnet/modules.go, go/cpu/internal.go,            *)
(* go/msgbus/subscriber.go).                                               *)
(*                                                                         *)
(* A telnet session registers a channel under a fresh UUID, pushes the     *)
(* request on INTERNAL and waits five seconds.  The CPU's INTERNAL         *)
(* goroutine handles requests in order and pushes a confirmation.  The     *)
(* telnet module's only INTERNAL subscriber looks the UUID up and sends on *)
(* the channel, which is not buffered.                                     *)
(***************************************************************************)
EXTENDS Naturals, Sequences

CONSTANTS
    Request,   \* requests of telnet sessions, each with its own UUID
    None,      \* the subscriber is not sending on a channel
    Faults     \* what may go wrong

Fault == {"lost",     \* the PUB socket drops a message
          "push",     \* Pusher.Push returns an error
          "garbage"}  \* a message on INTERNAL that is no valid envelope

ASSUME RequestAssumption == None \notin Request /\ Faults \subseteq Fault

VARIABLES
    session,     \* state of the session that makes the request
    registered,  \* keys of confirmationHandlers
    toCpu,       \* requests on their way to the CPU
    served,      \* requests the CPU has carried out
    internal,    \* the CPU's INTERNAL goroutine is alive
    toTelnet,    \* confirmations on their way back
    sending,     \* the request whose channel the subscriber sends on
    telnet,      \* the telnet process is alive
    lost         \* history: requests of which a message was lost

vars == <<session, registered, toCpu, served, internal, toTelnet, sending, telnet, lost>>

SessionState == {"new", "waiting", "answered", "timedout", "failed"}

TypeOK ==
    /\ session \in [Request -> SessionState]
    /\ registered \subseteq Request
    /\ toCpu \in Seq(Request)
    /\ served \subseteq Request
    /\ internal \in BOOLEAN
    /\ toTelnet \in Seq(Request)
    /\ sending \in Request \cup {None}
    /\ telnet \in BOOLEAN
    /\ lost \subseteq Request

Init ==
    /\ session = [r \in Request |-> "new"]
    /\ registered = {}
    /\ toCpu = <<>>
    /\ served = {}
    /\ internal = TRUE
    /\ toTelnet = <<>>
    /\ sending = None
    /\ telnet = TRUE
    /\ lost = {}

-----------------------------------------------------------------------------
(* Telnet session.                                                         *)

\* Mutant: a request that timed out is sent again under its UUID.
AskAgain(r) ==
    /\ telnet
    /\ session[r] \in {"new", "timedout"}
    /\ registered' = registered \cup {r}
    /\ toCpu' = Append(toCpu, r)
    /\ session' = [session EXCEPT ![r] = "waiting"]
    /\ UNCHANGED <<served, internal, toTelnet, sending, telnet, lost>>

\* Mutant: the channel is not registered.
AskUnregistered(r) ==
    /\ telnet
    /\ session[r] = "new"
    /\ toCpu' = Append(toCpu, r)
    /\ session' = [session EXCEPT ![r] = "waiting"]
    /\ UNCHANGED <<registered, served, internal, toTelnet, sending, telnet, lost>>

\* RegisterConfirmationHandler and Push; a failed push ends the command but
\* leaves the channel registered.
Ask(r) ==
    /\ telnet
    /\ session[r] = "new"
    /\ registered' = registered \cup {r}
    /\ \/ /\ toCpu' = Append(toCpu, r)
          /\ session' = [session EXCEPT ![r] = "waiting"]
       \/ /\ "push" \in Faults
          /\ session' = [session EXCEPT ![r] = "failed"]
          /\ UNCHANGED toCpu
    /\ UNCHANGED <<served, internal, toTelnet, sending, telnet, lost>>

\* case <-time.After(5 * time.Second): the channel stays registered.
Timeout(r) ==
    /\ telnet
    /\ session[r] = "waiting"
    /\ session' = [session EXCEPT ![r] = "timedout"]
    /\ UNCHANGED <<registered, toCpu, served, internal, toTelnet, sending, telnet, lost>>

-----------------------------------------------------------------------------
(* CPU: internalHandler, run by MonitorMsgBusChannel without an error      *)
(* channel, so that an error of the handler ends it for good.              *)

Serve ==
    /\ internal
    /\ toCpu # <<>>
    /\ toCpu' = Tail(toCpu)
    /\ served' = served \cup {Head(toCpu)}
    /\ \/ toTelnet' = Append(toTelnet, Head(toCpu)) /\ UNCHANGED internal
       \/ "push" \in Faults /\ internal' = FALSE /\ UNCHANGED toTelnet
    /\ UNCHANGED <<session, registered, sending, telnet, lost>>

Garbage ==
    /\ "garbage" \in Faults
    /\ internal
    /\ internal' = FALSE
    /\ UNCHANGED <<session, registered, toCpu, served, toTelnet, sending, telnet, lost>>

-----------------------------------------------------------------------------
(* Subscriber.run of the telnet module, case ENVELOPE_CONFIRMATION.        *)

\* Look the confirmation up; an unknown one is skipped.
Dispatch ==
    /\ telnet
    /\ sending = None
    /\ toTelnet # <<>>
    /\ toTelnet' = Tail(toTelnet)
    /\ sending' = IF Head(toTelnet) \in registered THEN Head(toTelnet) ELSE None
    /\ UNCHANGED <<session, registered, toCpu, served, internal, telnet, lost>>

\* conf <- confirmation meets the session's receive; then delete.
Deliver(r) ==
    /\ telnet
    /\ sending = r
    /\ session[r] = "waiting"
    /\ session' = [session EXCEPT ![r] = "answered"]
    /\ registered' = registered \ {r}
    /\ sending' = None
    /\ UNCHANGED <<toCpu, served, internal, toTelnet, telnet, lost>>

\* The map of handlers is not protected: a session that registers while the
\* subscriber uses the map, or while another one registers, may abort telnet.
MapRace(r) ==
    /\ telnet
    /\ session[r] = "new"
    /\ \/ sending = None /\ toTelnet # <<>>
       \/ \E q \in Request \ {r} : session[q] = "new"
    /\ telnet' = FALSE
    /\ UNCHANGED <<session, registered, toCpu, served, internal, toTelnet, sending, lost>>

-----------------------------------------------------------------------------
Lose ==
    /\ "lost" \in Faults
    /\ \/ /\ toCpu # <<>>
          /\ toCpu' = Tail(toCpu)
          /\ lost' = lost \cup {Head(toCpu)}
          /\ UNCHANGED toTelnet
       \/ /\ toTelnet # <<>>
          /\ toTelnet' = Tail(toTelnet)
          /\ lost' = lost \cup {Head(toTelnet)}
          /\ UNCHANGED toCpu
    /\ UNCHANGED <<session, registered, served, internal, sending, telnet>>

Subscriber == Dispatch \/ \E r \in Request : Deliver(r)

Next == \/ \E r \in Request : Ask(r) \/ Timeout(r) \/ MapRace(r)
        \/ Serve \/ Garbage \/ Subscriber \/ Lose

\* Goroutines that can run do run; nothing forces a session to make a request, a
\* timer to fire before an answer, or a message to be lost.
Fairness == WF_vars(Serve) /\ WF_vars(Subscriber)

Spec == Init /\ [][Next]_vars
FairSpec == Spec /\ Fairness

-----------------------------------------------------------------------------
(* Properties.                                                             *)

\* A request is in at most one of the places it passes through: it is carried out
\* at most once and confirmed at most once, and a session is told a result only
\* after the CPU carried out that very request.
OnceOnly ==
    \A r \in Request :
        LET on(q) == {i \in 1..Len(q) : q[i] = r}
            places == {<<"cpu", i>> : i \in on(toCpu)}
                      \cup {<<"telnet", i>> : i \in on(toTelnet)}
                      \cup (IF sending = r THEN {<<"sending", 0>>} ELSE {})
        IN /\ \A p, q \in places : p = q
           /\ on(toCpu) # {} => r \notin served
           /\ session[r] = "answered" => r \in served /\ places = {}

\* The subscriber is blocked in `conf <- confirmation' (subscriber.go:135).
Stuck == sending # None /\ session[sending] # "waiting"

\* The subscriber blocks only on a session that gave up after five seconds, never on
\* one that was answered or whose request was not sent.
StuckOnlyByTimeout == Stuck => session[sending] = "timedout"

\* The types; a request is carried out and confirmed at most once, to its own session
\* (internal.go:22-90); nothing but a session that gave up blocks the subscriber
\* (subscriber.go:135).
ControlInv == TypeOK /\ OnceOnly /\ StuckOnlyByTimeout

\* As long as no session gives up, a request that the CPU receives is answered, unless
\* one of its messages is lost or one of the two goroutines that handle it has ended.
AnsweredUnlessTimeout ==
    \A r \in Request :
        (toCpu # <<>> /\ Head(toCpu) = r) ~>
            (session[r] = "answered" \/ r \in lost \/ ~telnet \/ ~internal
             \/ \E q \in Request : session[q] = "timedout")
=============================================================================
