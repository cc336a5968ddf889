--------------------------------- MODULE IO ---------------------------------
(***************************************************************************)
(* The I/O module (python/otsim/io/io.py on top of the loop of             *)
(* python/otsim/helics_helper/__init__.py): a gateway between the message  *)
(* bus of a device and a HELICS co-simulation.                             *)
(*                                                                         *)
(* The subscriber thread collects Update messages in the dictionary        *)
(* `updated'; the HELICS thread turns its entries into publications and    *)
(* endpoint messages once per time step and sends what it reads from its   *)
(* subscriptions as a Status.  A mutex makes each access to the dictionary *)
(* one step.  HELICS itself is external: it grants times, and the inputs   *)
(* of a federate change only then.                                         *)
(***************************************************************************)
CONSTANTS
    Tag,        \* tags of the message bus
    Value,      \* numbers a point may carry
    None,       \* no entry
    Pub, Sub,   \* HELICS topics published and subscribed
    TagOf,      \* self.tags: the tag of every topic
    Boolean,    \* topics of type boolean; the others are doubles
    Endpoint,   \* remote endpoints
    Route,      \* self.eps as a relation between tags and endpoints
    Kinds       \* what a device may have configured: subsets of Kind

Kind == {"publications", "endpoints"}

ASSUME IOAssumption ==
    /\ Kinds \subseteq SUBSET Kind
    /\ TagOf \in [Pub \cup Sub -> Tag]
    /\ Boolean \subseteq Pub \cup Sub
    /\ Route \subseteq Tag \X Endpoint
    /\ {0, 1} \subseteq Value
    /\ None \notin Value

VARIABLES
    kinds,     \* what this device has configured
    pc,        \* where the HELICS thread is
    updated,   \* self.updated
    send,      \* self.values.send
    outbox,    \* self.messages.send, by destination
    recv,      \* self.values.recv
    published, \* what HELICS holds for every publication
    mail,      \* last value per tag every endpoint got
    field,     \* what HELICS delivers for every subscription
    status,    \* the last Status pushed
    latest     \* history: the last value per tag an Update brought

helics == <<published, mail, field>>
vars == <<kinds, pc, updated, send, outbox, recv, helics, status, latest>>

Maybe == Value \cup {None}
Step == {"request", "publications", "publish", "endpoints", "send", "subscribe",
         "status", "done"}

TypeOK ==
    /\ kinds \in Kinds
    /\ pc \in Step
    /\ updated \in [Tag -> Maybe]
    /\ send \in [Pub -> Maybe]
    /\ outbox \in [Route -> Maybe]
    /\ recv \in [Sub -> Maybe]
    /\ published \in [Pub -> Maybe]
    /\ mail \in [Route -> Maybe]
    /\ field \in [Sub -> Value]
    /\ status \subseteq Tag \X Value
    /\ latest \in [Tag -> Maybe]

Empty == [t \in Tag |-> None]

Init ==
    /\ kinds \in Kinds
    /\ pc = "request"
    /\ updated = Empty
    /\ send = [k \in Pub |-> None]
    /\ outbox = [r \in Route |-> None]
    /\ recv = [k \in Sub |-> None]
    /\ published = [k \in Pub |-> None]
    /\ mail = [r \in Route |-> None]
    /\ field = [k \in Sub |-> 0]
    /\ status = {}
    /\ latest = Empty

\* bool(value) for a boolean topic (0 and 1 stand for False and True, which is
\* also what float() makes of them), float(value) for a double.
Convert(k, v) == IF k \in Boolean THEN (IF v = 0 THEN 0 ELSE 1) ELSE v

\* Entries of f replaced by those of g that are there.
Merge(f, g) == [x \in DOMAIN f |-> IF g[x] = None THEN f[x] ELSE g[x]]

-----------------------------------------------------------------------------
(* The subscriber thread.                                                  *)

\* handle_msgbus_update: one message may carry several points.
Update ==
    \E msg \in [Tag -> Maybe] :
        /\ msg # Empty
        /\ updated' = Merge(updated, msg)
        /\ latest' = Merge(latest, msg)
        /\ UNCHANGED <<kinds, pc, send, outbox, recv, helics, status>>

-----------------------------------------------------------------------------
(* The HELICS thread: run.                                                 *)

\* helicsFederateRequestTime returns, or the loop is over and cleanup follows.
RequestTime ==
    /\ pc = "request"
    /\ \/ /\ field' \in [Sub -> Value]
          /\ pc' = IF "publications" \in kinds THEN "publications" ELSE "publish"
       \/ pc' = "done" /\ UNCHANGED field
    /\ UNCHANGED <<kinds, updated, send, outbox, recv, published, mail, status, latest>>

\* Mutant: an entry whose value is zero is taken for a missing one.
ActionPublicationsTruthy ==
    /\ pc = "publications"
    /\ send' = [k \in Pub |-> IF updated[TagOf[k]] \in {None, 0} THEN send[k]
                              ELSE Convert(k, updated[TagOf[k]])]
    /\ updated' = Empty
    /\ pc' = "publish"
    /\ UNCHANGED <<kinds, outbox, recv, helics, status, latest>>

ActionPublications ==
    /\ pc = "publications"
    /\ send' = [k \in Pub |-> IF updated[TagOf[k]] = None THEN send[k]
                              ELSE Convert(k, updated[TagOf[k]])]
    /\ updated' = Empty
    /\ pc' = "publish"
    /\ UNCHANGED <<kinds, outbox, recv, helics, status, latest>>

\* Mutant: topics whose value is False or zero are skipped too.
PublishTruthy ==
    /\ pc = "publish"
    /\ published' = [k \in Pub |-> IF send[k] \in {None, 0} THEN published[k] ELSE send[k]]
    /\ pc' = IF "endpoints" \in kinds THEN "endpoints" ELSE "send"
    /\ UNCHANGED <<kinds, updated, send, outbox, recv, mail, field, status, latest>>

\* _publish: topics that have no value yet are skipped.
Publish ==
    /\ pc = "publish"
    /\ published' = Merge(published, send)
    /\ pc' = IF "endpoints" \in kinds THEN "endpoints" ELSE "send"
    /\ UNCHANGED <<kinds, updated, send, outbox, recv, mail, field, status, latest>>

\* Mutant: a tag has one endpoint only.
ActionEndpointsSendOne ==
    /\ pc = "endpoints"
    /\ outbox' = Merge(outbox, [r \in Route |->
                    IF r[2] = CHOOSE e \in Endpoint : <<r[1], e>> \in Route
                    THEN updated[r[1]] ELSE None])
    /\ updated' = Empty
    /\ pc' = "send"
    /\ UNCHANGED <<kinds, send, recv, helics, status, latest>>

\* One message per destination, with all its tags.
ActionEndpointsSend ==
    /\ pc = "endpoints"
    /\ outbox' = Merge(outbox, [r \in Route |-> updated[r[1]]])
    /\ updated' = Empty
    /\ pc' = "send"
    /\ UNCHANGED <<kinds, send, recv, helics, status, latest>>

\* _endpoints_send; what _endpoints_recv receives is not used.
EndpointsSend ==
    /\ pc = "send"
    /\ mail' = Merge(mail, outbox)
    /\ outbox' = [r \in Route |-> None]
    /\ pc' = "subscribe"
    /\ UNCHANGED <<kinds, updated, send, recv, published, field, status, latest>>

\* Mutant: an input is read until it has a value.
SubscribeOnce ==
    /\ pc = "subscribe"
    /\ recv' = [k \in Sub |-> IF recv[k] = None THEN Convert(k, field[k]) ELSE recv[k]]
    /\ pc' = IF Sub # {} THEN "status" ELSE "request"
    /\ UNCHANGED <<kinds, updated, send, outbox, helics, status, latest>>

Subscribe ==
    /\ pc = "subscribe"
    /\ recv' = [k \in Sub |-> Convert(k, field[k])]
    /\ pc' = IF Sub # {} THEN "status" ELSE "request"
    /\ UNCHANGED <<kinds, updated, send, outbox, helics, status, latest>>

ActionSubscriptions ==
    /\ pc = "status"
    /\ status' = {<<TagOf[k], recv[k]>> : k \in Sub}
    /\ pc' = "request"
    /\ UNCHANGED <<kinds, updated, send, outbox, recv, helics, latest>>

-----------------------------------------------------------------------------
Run == RequestTime \/ ActionPublications \/ Publish \/ ActionEndpointsSend
       \/ EndpointsSend \/ Subscribe \/ ActionSubscriptions

\* After the last time step the subscriber thread goes on.
Next == Run \/ Update

\* HELICS grants every time that is requested and the thread runs.
Fairness == WF_vars(Run)

Spec == Init /\ [][Next]_vars
FairSpec == Spec /\ Fairness

-----------------------------------------------------------------------------
(* Properties.                                                             *)

\* io.py:184, "publish any update messages that have come in to HELICS": the latest
\* value of a published tag waits in the dictionary or is the value the topic has
\* from now on; no later time step falls back behind it.  That is so when the device has
\* no endpoints: with both, each of the two consumers clears what the other one has not
\* seen (io.py:205, io.py:241).
PublicationNotLost ==
    kinds = {"publications"} => \A k \in Pub : latest[TagOf[k]] # None =>
        \/ updated[TagOf[k]] = latest[TagOf[k]]
        \/ send[k] = Convert(k, latest[TagOf[k]])

\* io.py:209, "send any update messages that have come in to HELICS": the latest value
\* of a tag waits in the dictionary, is on its way, or has been sent to every remote
\* endpoint of the tag; when the device has no publications.
EndpointNotLost ==
    kinds = {"endpoints"} => \A r \in Route : latest[r[1]] # None =>
        latest[r[1]] \in {updated[r[1]], outbox[r], mail[r]}

\* A Status describes a single time step: it holds the inputs of the last time that
\* was granted, all of them, and never a mixture with an earlier one (run).
StatusOfOneStep ==
    pc \in {"request", "done"} /\ status # {} =>
        status = {<<TagOf[k], Convert(k, field[k])>> : k \in Sub}

\* The types, and that a Status describes one time step (io.py:164-180).
IOInv == TypeOK /\ StatusOfOneStep

\* What the device commands last is what the simulation sees in the end, unless the
\* simulation ends: the loop never stops working on the dictionary.
SimulationFollows ==
    <>[][~Update]_vars =>
        <>[](/\ kinds = {"publications"} => \A k \in Pub : latest[TagOf[k]] # None =>
                   published[k] = Convert(k, latest[TagOf[k]])
             /\ kinds = {"endpoints"} => \A r \in Route : latest[r[1]] # None => mail[r] = latest[r[1]])
        \/ <>(pc = "done")
=============================================================================
