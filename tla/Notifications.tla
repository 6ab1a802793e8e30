--------------------------- MODULE Notifications ---------------------------
(***************************************************************************)
(* notification-service: events become pushes to the devices of the users  *)
(* they concern.                                                           *)
(*                                                                         *)
(* A handler looks up the devices of one recipient after the other, and    *)
(* sends to each device in turn.  The offset of an event is committed when *)
(* its handler has returned.  Some handlers catch and log whatever fails,  *)
(* and are not run again; where the error leaves the handler it is thrown  *)
(* on to the Kafka client, which runs the handler again, as it does when   *)
(* the process died.  A campaign (a cron tick, a batch request) looks all  *)
(* its users up at once, and a crash ends it.                              *)
(***************************************************************************)
EXTENDS Naturals, Sequences

CONSTANTS
    Users,
    Devices,        \* device tokens
    Events,
    Campaigns,
    MaxRegistered,  \* bound on the registrations of devices
    MaxCrashes,     \* bound on crashes and on handlers that throw
    Nothing

VARIABLES
    holder,         \* holder[d]: the user device d is registered for, or Nothing
    about,          \* about[x]: the users to look up for x, in turn; empty if x is not there yet
    pending,        \* the events whose offset is not committed
    told,           \* told[x]: the devices the push of x was sent to
    missed,         \* missed[x]: the devices it could not be sent to
    work,           \* work[x]: the handler of x
    registered,
    crashes

vars == <<holder, about, pending, told, missed, work, registered, crashes>>

----------------------------------------------------------------------------
(* Types *)

Sources == Events \cup Campaigns

\* next: the recipients to look up.  tokens: the devices still to be sent to.
Handling == [stage : {"idle", "lookup", "send"}, next : 1 .. 2, tokens : SUBSET Devices]

TypeOK ==
    /\ holder \in [Devices -> Users \cup {Nothing}]
    /\ about \in [Sources -> Seq(SUBSET Users)]
    /\ pending \subseteq Events
    /\ told \in [Sources -> SUBSET Devices]
    /\ missed \in [Sources -> SUBSET Devices]
    /\ work \in [Sources -> Handling]
    /\ registered \in 0 .. MaxRegistered
    /\ crashes \in 0 .. MaxCrashes

----------------------------------------------------------------------------
(* Operators *)

Idle == [stage |-> "idle", next |-> 1, tokens |-> {}]

At(x, stage) == work[x].stage = stage

FindTokens(users) == {d \in Devices : holder[d] \in users}

End(x) ==
    /\ work' = [work EXCEPT ![x] = Idle]
    /\ pending' = pending \ {x}

\* What follows when the devices in tokens are left to be sent to.
Continue(x, tokens) ==
    CASE tokens # {} ->
           /\ work' = [work EXCEPT ![x].stage = "send", ![x].tokens = tokens]
           /\ UNCHANGED pending
      [] tokens = {} /\ work[x].next < Len(about[x]) ->
           /\ work' = [work EXCEPT ![x] = [Idle EXCEPT !.stage = "lookup", !.next = @ + 1]]
           /\ UNCHANGED pending
      [] OTHER -> End(x)

----------------------------------------------------------------------------
Init ==
    /\ holder = [d \in Devices |-> Nothing]
    /\ about = [x \in Sources |-> << >>]
    /\ pending = {}
    /\ told = [x \in Sources |-> {}]
    /\ missed = [x \in Sources |-> {}]
    /\ work = [x \in Sources |-> Idle]
    /\ registered = 0
    /\ crashes = 0

\* The upsert on the device token: the device changes hands.
RegisterDeviceToken(d, u) ==
    /\ registered < MaxRegistered
    /\ registered' = registered + 1
    /\ holder' = [holder EXCEPT ![d] = u]
    /\ UNCHANGED <<about, pending, told, missed, work, crashes>>

\* Another service sends an event about one user, or, when an order is cancelled, about two.
Publish(e, users) ==
    /\ about[e] = << >>
    /\ about' = [about EXCEPT ![e] = users]
    /\ pending' = pending \cup {e}
    /\ UNCHANGED <<holder, told, missed, work, registered, crashes>>

\* The consumer runs one handler at a time.
Deliver_AutoCommit(e) ==
    /\ e \in pending
    /\ \A f \in Events : At(f, "idle")
    /\ work' = [work EXCEPT ![e].stage = "lookup"]
    /\ pending' = pending \ {e}
    /\ UNCHANGED <<holder, about, told, missed, registered, crashes>>

Deliver(e) ==
    /\ e \in pending
    /\ \A f \in Events : At(f, "idle")
    /\ work' = [work EXCEPT ![e].stage = "lookup"]
    /\ UNCHANGED <<holder, about, pending, told, missed, registered, crashes>>

\* A cron tick, for all customers, or send-batch.
StartCampaign(c, users) ==
    /\ about[c] = << >>
    /\ about' = [about EXCEPT ![c] = <<users>>]
    /\ work' = [work EXCEPT ![c].stage = "lookup"]
    /\ UNCHANGED <<holder, pending, told, missed, registered, crashes>>

LookUp(x) ==
    /\ At(x, "lookup")
    /\ Continue(x, FindTokens(about[x][work[x].next]))
    /\ UNCHANGED <<holder, about, told, missed, registered, crashes>>

\* Caught: of an order created or confirmed, of a low stock, of a campaign.
LookUpFails(x) ==
    /\ At(x, "lookup")
    /\ Len(about[x]) = 1
    /\ missed' = [missed EXCEPT ![x] = Devices]
    /\ End(x)
    /\ UNCHANGED <<holder, about, told, registered, crashes>>

\* Not caught: of the other events, one of which is about two users.
LookUpThrows(e) ==
    /\ At(e, "lookup")
    /\ crashes < MaxCrashes
    /\ crashes' = crashes + 1
    /\ work' = [work EXCEPT ![e] = Idle]
    /\ UNCHANGED <<holder, about, pending, told, missed, registered>>

SendPushNotification(x) ==
    /\ At(x, "send")
    /\ \E d \in work[x].tokens :
         /\ told' = [told EXCEPT ![x] = @ \cup {d}]
         /\ Continue(x, work[x].tokens \ {d})
    /\ UNCHANGED <<holder, about, missed, registered, crashes>>

\* Firebase refuses, say because the token is no longer valid.  It stays registered.
SendFails(x) ==
    /\ At(x, "send")
    /\ \E d \in work[x].tokens :
         /\ missed' = [missed EXCEPT ![x] = @ \cup {d}]
         /\ Continue(x, work[x].tokens \ {d})
    /\ UNCHANGED <<holder, about, told, registered, crashes>>

\* The process dies with everything it runs.
Crash ==
    /\ crashes < MaxCrashes
    /\ \E x \in Sources : ~ At(x, "idle")
    /\ crashes' = crashes + 1
    /\ work' = [x \in Sources |-> Idle]
    /\ UNCHANGED <<holder, about, pending, told, missed, registered>>

----------------------------------------------------------------------------
(* Specification *)

Handle(x) == LookUp(x) \/ SendPushNotification(x)

Next ==
    \/ \E d \in Devices, u \in Users : RegisterDeviceToken(d, u)
    \/ \E e \in Events, u \in Users :
         Publish(e, <<{u}>>) \/ \E v \in Users : Publish(e, <<{u}, {v}>>)
    \/ \E e \in Events : Deliver(e) \/ LookUpThrows(e)
    \/ \E c \in Campaigns, users \in SUBSET Users : StartCampaign(c, users)
    \/ \E x \in Sources : Handle(x) \/ LookUpFails(x) \/ SendFails(x)
    \/ Crash

Spec == Init /\ [][Next]_vars

\* Kafka delivers what is not committed, one event's handler after the other's, and a handler
\* that was begun goes on.
FairSpec ==
    /\ Spec
    /\ \A e \in Events : SF_vars(Deliver(e))
    /\ \A x \in Sources : WF_vars(Handle(x))

----------------------------------------------------------------------------
(* Properties *)

Concerned(x) == UNION {about[x][i] : i \in DOMAIN about[x]}

\* Despite a crash in the middle of a list of devices: every device that a user an event is about
\* has when the event waits is sent its push, unless the device changes hands, Firebase refuses
\* it, or the database fails a handler that catches that; a handler that does not is run again.
EveryDeviceIsTold ==
    \A e \in Events, d \in Devices, u \in Users :
        (e \in pending /\ At(e, "idle") /\ u \in Concerned(e) /\ holder[d] = u)
            ~> (d \in told[e] \/ d \in missed[e] \/ holder[d] # u)

=============================================================================
