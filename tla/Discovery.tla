----------------------------- MODULE Discovery ------------------------------
(***************************************************************************)
(* How remotes and blinds announce themselves to the broker: a flag and a  *)
(* pending-work item for each, a timer that comes round while flags are    *)
(* set, and a main loop that starts it when it finds the client connected. *)
(***************************************************************************)
EXTENDS MqttClient, FiniteSets, FiniteSetsExt

CONSTANTS
  Remotes,    \* our own, in the order they are visited
  Blinds,     \* visited after the remotes
  PrimaryOf,  \* the remote that is made with a blind, and goes with it
  HasTopic,   \* a discovery topic is configured
  MaxChanges  \* bound: devices renamed, added and deleted

Devices == Remotes \cup Blinds

\* Every device subscribes to its commands.
ASSUME DiscoveryAssumption ==
  /\ Devices \subseteq Nat /\ Topics = Devices
  /\ \A r \in Remotes, b \in Blinds : r < b
  /\ PrimaryOf \in [Blinds -> Remotes]
  /\ \A a, b \in Blinds : PrimaryOf[a] = PrimaryOf[b] => a = b
  /\ HasTopic \in BOOLEAN /\ MaxChanges \in Nat

VARIABLES
  flagged,    \* devices with _needsPublish
  scheduled,  \* devices whose _discoveryWorker is pending
  republish,  \* republishTimer is armed
  noticed,    \* mqttConnected of runServiceMode
  published,  \* history: devices of which the client took the present state
  gone,       \* devices that were deleted: their ids do not come back
  changes     \* bound: changes so far

discoveryVars == <<flagged, scheduled, republish, noticed, published, gone, changes>>
vars          == <<mqttVars, discoveryVars>>

\* A blind, and the remote that is its primary one.
Together(d) == IF d \in Blinds THEN {d, PrimaryOf[d]} ELSE {d}

\* Every constructor triggers its discovery.  A boot may find a remote that
\* was made for a blind and not the blind.
Init ==
  /\ MqttInit
  /\ topics \in {D \in SUBSET Devices : \A d \in D : Together(d) \subseteq D}
  /\ flagged = topics
  /\ scheduled = topics
  /\ republish = FALSE
  /\ noticed = FALSE
  /\ published = {}
  /\ gone = {}
  /\ changes = 0

-----------------------------------------------------------------------------
\* Mutation: without a connection there is nothing to do.
FlaggedIfConnected(D) == IF link = "up" THEN flagged \cup D ELSE flagged

FlaggedToo(D) == flagged \cup D

TriggerPublishDiscovery(D) ==
  /\ flagged' = FlaggedToo(D)
  /\ scheduled' = scheduled \cup D

Counted == ~ crashed /\ changes < MaxChanges /\ changes' = changes + 1

IsAPrimaryRemote(d) == \E b \in Blinds \cap topics : PrimaryOf[b] = d

\* DoUpdateRemote; DoUpdateBlind, which renames the primary remote as well.
Rename(d) ==
  /\ Counted
  /\ d \in topics
  /\ TriggerPublishDiscovery(Together(d))
  /\ published' = published \ Together(d)
  /\ UNCHANGED <<mqttVars, republish, noticed, gone>>

\* DoAddRemote; DoAddBlind, which makes the primary remote first.
Add(d) ==
  /\ Counted
  /\ Together(d) \cap (topics \cup gone) = {}
  /\ \A b \in Blinds : PrimaryOf[b] # d
  /\ topics' = topics \cup Together(d)
  /\ TriggerPublishDiscovery(Together(d))
  /\ UNCHANGED <<link, inbound, used, wifiVars, republish, noticed, published, gone>>

WorkGoes(D) == scheduled \ D

\* DoDeleteRemote, DoDeleteBlind.  The destructors take the callback and the
\* pending work along.
Delete(d) ==
  /\ Counted
  /\ d \in topics /\ ~ IsAPrimaryRemote(d)
  /\ topics' = topics \ Together(d)
  /\ flagged' = flagged \ Together(d)
  /\ scheduled' = WorkGoes(Together(d))
  /\ published' = published \ Together(d)
  /\ gone' = gone \cup Together(d)
  /\ UNCHANGED <<link, inbound, used, wifiVars, republish, noticed>>

-----------------------------------------------------------------------------
(* PublishDiscovery, called by the pending-work item *)

Works(d) ==
  /\ ~ crashed
  /\ d \in scheduled
  /\ scheduled' = scheduled \ {d}
  /\ UNCHANGED <<mqttVars, republish, noticed, gone, changes>>

\* The primary remote of a blind is not announced.
Announced(d) == HasTopic /\ ~ IsAPrimaryRemote(d)

\* Not connected, or lwIP has no room for all that is to be published.
PublishFails(d) ==
  /\ Works(d)
  /\ link # "up" \/ Announced(d)
  /\ UNCHANGED <<flagged, published>>

NothingToPublish(d) ==
  /\ Works(d)
  /\ link = "up" /\ ~ Announced(d)
  /\ flagged' = flagged \ {d}
  /\ UNCHANGED published

PublishSucceeds(d) ==
  /\ Works(d)
  /\ link = "up" /\ Announced(d)
  /\ flagged' = flagged \ {d}
  /\ published' = published \cup {d}

-----------------------------------------------------------------------------
\* Mutation: the timer comes round once.
RepublishOnce == FALSE

RepublishAgain == TRUE

\* The callback of republishTimer: TryRepublish of the remotes, then of the
\* blinds, triggers the first one that is flagged.
RepublishTimer ==
  /\ ~ crashed
  /\ republish
  /\ IF flagged = {}
       THEN /\ republish' = FALSE
            /\ UNCHANGED <<flagged, scheduled>>
       ELSE /\ TriggerPublishDiscovery({Min(flagged)})
            /\ republish' = RepublishAgain
  /\ UNCHANGED <<mqttVars, noticed, published, gone, changes>>

\* The main loop, every 250 ms.  It misses a connection that breaks and is
\* there again in between.
Poll ==
  /\ ~ crashed
  /\ noticed # (link = "up")
  /\ noticed' = (link = "up")
  /\ republish' = noticed'
  /\ UNCHANGED <<mqttVars, flagged, scheduled, published, gone, changes>>

Alone(A) == A /\ UNCHANGED discoveryVars

Next ==
  \/ Alone(MqttNext)
  \/ \E d \in Devices :
       \/ Rename(d) \/ Add(d) \/ Delete(d)
       \/ PublishFails(d) \/ NothingToPublish(d) \/ PublishSucceeds(d)
  \/ RepublishTimer
  \/ Poll

Spec == Init /\ [][Next]_vars

\* Core 0 serves its timers, its pending work and the main loop; lwIP, which
\* runs in between, has room again and again.  The network lets the device in,
\* DHCP answers, and the broker accepts.
FairSpec ==
  /\ Spec
  /\ WF_vars(RepublishTimer) /\ WF_vars(Poll)
  /\ WF_vars(Alone(Wifi(WifiWatchdog)))
  /\ WF_vars(Alone(Wifi(WifiJoined))) /\ WF_vars(Alone(Wifi(GotAddress)))
  /\ WF_vars(Alone(MqttWatchdog)) /\ WF_vars(Alone(ConnectAccepted))
  /\ \A d \in Devices :
       /\ WF_vars(NothingToPublish(d) \/ PublishFails(d) \/ PublishSucceeds(d))
       /\ SF_vars(PublishSucceeds(d))

-----------------------------------------------------------------------------
TypeOK ==
  /\ MqttTypeOK
  /\ flagged \subseteq topics /\ scheduled \subseteq topics /\ published \subseteq topics
  /\ republish \in BOOLEAN /\ noticed \in BOOLEAN
  /\ gone \subseteq Devices \ topics
  /\ changes \in 0 .. MaxChanges

\* A device that does not wait to be announced was announced as it is now,
\* however often it was renamed while the connection came and went, and no
\* remote that is not announced outlives the blind that keeps it from being so.
UnflaggedIsPublished ==
  \A d \in topics \ flagged : Announced(d) => d \in published

\* Once the main loop has noticed a connection, every device that waits is
\* announced, one after the other, unless the connection breaks: the timer does
\* not stop before, and no device is passed over.
WaitingIsPublished ==
  \A d \in Devices :
    republish /\ d \in flagged ~> d \notin flagged \/ link # "up" \/ crashed
=============================================================================
