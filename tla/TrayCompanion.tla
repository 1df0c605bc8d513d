---------------------------- MODULE TrayCompanion ----------------------------
(***************************************************************************)
(* MoQTCast Lite, the tray companion of Windows (windows-lite/src:         *)
(* registry.rs, discovery.rs, bridge.rs, tray.rs).                         *)
(*                                                                         *)
(* Three threads: one browses mDNS into a registry and publishes snapshots *)
(* of it, one answers the page in the browser over loopback HTTP from the  *)
(* latest snapshot, and the tray shows that snapshot and stops the others. *)
(* A record of a device is reduced to what validated_watch_target reads,   *)
(* an opaque id, which is random, to the number of its draw, and a request *)
(* to its kind and the checks it does not pass.                            *)
(***************************************************************************)
EXTENDS Integers, Sequences, FiniteSets, SequencesExt

CONSTANTS
  Devices,       \* instances that mDNS may report
  Records,       \* what they may advertise: [valid, addresses]
  MaxDevices,    \* MAX_DEVICES
  MaxEndpoints,  \* MAX_DESCRIPTOR_ENDPOINTS
  Lease,         \* PRESENCE_LEASE
  Window,        \* RATE_LIMIT_WINDOW
  Burst,         \* RATE_LIMIT_BURST
  Backlog,       \* connections the listener holds
  Defects,       \* the sets of checks that a request may fail
  MaxNow,        \* bound: the clock
  MaxRevision,   \* bound: snapshots published while browsing
  MaxRequests    \* bound: requests

TrayAssumption ==
  /\ {MaxDevices, MaxEndpoints, Lease, Window, Burst, Backlog} \subseteq Nat \ {0}
  /\ {MaxNow, MaxRevision, MaxRequests} \subseteq Nat
  /\ \A r \in Records : r.valid \in BOOLEAN /\ r.addresses \subseteq Nat

VARIABLES
  now,
  browser,     \* the discovery worker: where it is and its lifecycle
  registry,    \* Registry::entries: device -> [records, expires], records empty when only found
  latest,      \* DiscoveryView::latest
  stops,       \* the workers that were told to stop
  bridge,      \* the bridge worker: where it is and the request it serves
  backlog,     \* connections not accepted yet
  ids,         \* ServerState::device_ids
  drawn,       \* random ids drawn so far
  rateLimit,   \* ServerState::rate_limit
  told,        \* history: what the page was told, [id, device]
  granted,     \* history: when requests were allowed
  answer,      \* the last answer
  requests,    \* requests so far
  tray,        \* the tray thread
  posted,      \* a message waits for the tray
  clicks,      \* menu events
  shown        \* shown_revision

discoveryVars == <<browser, registry, latest>>
idVars        == <<ids, drawn, told>>
bridgeVars    == <<bridge, idVars, rateLimit, granted, answer>>
trayVars      == <<tray, clicks, shown>>
vars == <<now, discoveryVars, stops, bridgeVars, backlog, requests, trayVars, posted>>

(***************************************************************************)
(* registry.rs                                                             *)
(***************************************************************************)
Usable(record) == record.addresses \ {0}    \* 0 stands for loopback and the like

\* The lowest MaxEndpoints usable addresses, for an open cluster only.
WatchTarget(record) ==
  IF record.valid THEN {a \in Usable(record) : Cardinality({b \in Usable(record) : b < a}) < MaxEndpoints}
                  ELSE {}

Resolved(entries) == {d \in DOMAIN entries : entries[d].records # {}}
Snapshot(entries, revision, lifecycle) ==
  [revision |-> revision, lifecycle |-> lifecycle,
   devices |-> [d \in Resolved(entries) |-> UNION {WatchTarget(r) : r \in entries[d].records}]]

With(entries, d, records) ==
  [e \in DOMAIN entries \union {d} |-> IF e = d THEN [records |-> records, expires |-> now + Lease] ELSE entries[e]]
Without(entries, gone) == [d \in DOMAIN entries \ gone |-> entries[d]]
HasRoom(d) == d \in DOMAIN registry \/ Cardinality(DOMAIN registry) < MaxDevices

Found(d) == IF HasRoom(d) THEN With(registry, d, IF d \in DOMAIN registry THEN registry[d].records ELSE {})
                          ELSE registry
ResolvedRecord(d, r) == IF HasRoom(d) THEN With(registry, d, {r}) ELSE registry
Expire == Without(registry, {d \in DOMAIN registry : registry[d].expires <= now})

\* RegistryChange: only what resolved entries say is a change.
Changed(entries) ==
  \/ Resolved(entries) # Resolved(registry)
  \/ \E d \in Resolved(entries) : entries[d].records # registry[d].records

(***************************************************************************)
(* discovery.rs                                                            *)
(***************************************************************************)
Publish(entries, lifecycle) ==
  latest' = Snapshot(entries, latest.revision + 1, lifecycle) /\ posted' = TRUE
PublishIf(changed, entries, lifecycle) ==
  IF changed THEN Publish(entries, lifecycle) ELSE UNCHANGED <<latest, posted>>
Browser(at, lifecycle) == browser' = [at |-> at, lifecycle |-> lifecycle]

Browses ==
  /\ browser.at = "new"
  /\ \/ Browser("check", "browsing") /\ Publish(registry, "browsing")
     \/ Browser("ended", "failed") /\ Publish(registry, "failed")
  /\ UNCHANGED <<now, registry, stops, bridgeVars, backlog, requests, trayVars>>

\* A stop is looked for before every event, and errors of the daemon after it.
ChecksStop ==
  /\ browser.at = "check" /\ UNCHANGED registry
  /\ \/ /\ "discovery" \in stops /\ Browser("closing", "stopped") /\ Publish(registry, "stopping")
     \/ /\ "discovery" \notin stops /\ Browser("recv", browser.lifecycle) /\ UNCHANGED <<latest, posted>>
     \/ /\ "discovery" \notin stops /\ latest.revision < MaxRevision
        /\ Browser("recv", "degraded") /\ PublishIf(browser.lifecycle # "degraded", registry, "degraded")
  /\ UNCHANGED <<now, stops, bridgeVars, backlog, requests, trayVars>>

\* A device event, or none within EVENT_POLL_INTERVAL.
Receives ==
  /\ browser.at = "recv" /\ latest.revision < MaxRevision /\ Browser("check", browser.lifecycle)
  /\ \E entries \in {Expire}
                    \union {Found(d) : d \in Devices}
                    \union {ResolvedRecord(d, r) : d \in Devices, r \in Records}
                    \union {Without(registry, {d}) : d \in Devices} :
       registry' = entries /\ PublishIf(Changed(entries), entries, browser.lifecycle)
  /\ UNCHANGED <<now, stops, bridgeVars, backlog, requests, trayVars>>

\* Beyond the bound nothing happens on the network.
PollsOnly ==
  /\ browser.at = "recv" /\ latest.revision >= MaxRevision /\ Browser("check", browser.lifecycle)
  /\ registry' = Expire /\ PublishIf(Changed(Expire), Expire, browser.lifecycle)
  /\ UNCHANGED <<now, stops, bridgeVars, backlog, requests, trayVars>>

SearchStarted ==
  /\ browser.at = "recv" /\ latest.revision < MaxRevision
  /\ Browser("check", "browsing") /\ Publish(registry, "browsing")
  /\ UNCHANGED <<now, registry, stops, bridgeVars, backlog, requests, trayVars>>

\* SearchStopped, or the daemon is gone.
SearchEnds ==
  /\ browser.at = "recv" /\ Browser("closing", "failed")
  /\ UNCHANGED <<now, registry, latest, stops, bridgeVars, backlog, requests, trayVars, posted>>

FinishRun ==
  /\ browser.at = "closing" /\ Browser("ended", browser.lifecycle)
  /\ registry' = <<>> /\ Publish(registry', browser.lifecycle)
  /\ UNCHANGED <<now, stops, bridgeVars, backlog, requests, trayVars>>

Discovers == Browses \/ ChecksStop \/ Receives \/ PollsOnly \/ SearchStarted \/ SearchEnds \/ FinishRun

(***************************************************************************)
(* bridge.rs                                                               *)
(***************************************************************************)
\* The page in the browser, with the ids that it was told.
Connect ==
  /\ bridge.at # "ended" /\ Len(backlog) < Backlog /\ requests < MaxRequests /\ requests' = requests + 1
  /\ \E kind \in {"preflight", "presence", "descriptor"}, fails \in Defects, id \in {0} \union {t.id : t \in told} :
       /\ id > 0 => kind = "descriptor"
       /\ backlog' = Append(backlog, [kind |-> kind, fails |-> fails, id |-> id])
  /\ UNCHANGED <<now, discoveryVars, stops, bridgeVars, trayVars, posted>>

NoRequest == [kind |-> "none", fails |-> {}, id |-> 0]
\* A stop is looked for after listener.accept, which may also fail for good.
Serves(at, request) == bridge' = [at |-> at, request |-> request]
Accept ==
  /\ bridge.at = "accept" /\ backlog # <<>>
  /\ \/ "bridge" \notin stops /\ Serves("serve", Head(backlog)) /\ backlog' = Tail(backlog)
     \/ "bridge" \in stops /\ Serves("ended", NoRequest) /\ backlog' = <<>>
  /\ UNCHANGED <<now, discoveryVars, stops, idVars, rateLimit, granted, answer, requests, trayVars, posted>>

AcceptFails ==
  /\ bridge.at = "accept" /\ Serves("ended", NoRequest) /\ backlog' = <<>>
  /\ UNCHANGED <<now, discoveryVars, stops, idVars, rateLimit, granted, answer, requests, trayVars, posted>>

\* ServerState::handle looks at these in this order.
Checks == << [name |-> "deadline", status |-> 400], [name |-> "size", status |-> 431],
             [name |-> "syntax", status |-> 400], [name |-> "host", status |-> 421],
             [name |-> "origin", status |-> 403], [name |-> "body", status |-> 400],
             [name |-> "path", status |-> 404], [name |-> "method", status |-> 405],
             [name |-> "grant", status |-> 401] >>   \* the token, or 403 for the headers of a preflight
Failed(fails)  == SelectSeq(Checks, LAMBDA c : c.name \in fails)
Answer(status) == answer' = [status |-> status, id |-> bridge.request.id, target |-> {}]

\* ServerState::allow
InWindow  == SelectSeq(rateLimit, LAMBDA t : now - t < Window)
Allowed   == Len(InWindow) < Burst
Grant     == rateLimit' = Append(InWindow, now) /\ granted' = Append(granted, now)

Refuse ==
  /\ Failed(bridge.request.fails) # <<>> /\ Answer(Failed(bridge.request.fails)[1].status)
  /\ UNCHANGED <<idVars, rateLimit, granted>>

TooMany ==
  /\ Failed(bridge.request.fails) = <<>> /\ ~Allowed /\ Answer(429) /\ rateLimit' = InWindow
  /\ UNCHANGED <<idVars, granted>>

Preflight == bridge.request.kind = "preflight" /\ Answer(204) /\ UNCHANGED idVars

StillThere == DOMAIN ids \intersect DOMAIN latest.devices
Unnamed    == DOMAIN latest.devices \ DOMAIN ids

\* random_device_id: as many bytes as make two equal draws impossible here; its
\* counterpart hands out the lowest numbers that no device has.
FreeIds(n)  == {i \in 1 .. Cardinality(DOMAIN ids) + n :
                  /\ i \notin {ids[d] : d \in StillThere}
                  /\ Cardinality({j \in 1 .. i : j \notin {ids[d] : d \in StillThere}}) <= n}
DrawnIds(n) == drawn + 1 .. drawn + n

\* presence_body: ids of devices that left are dropped, new devices get one each,
\* unless the random numbers run out half-way; then the page is told nothing.
PresenceBody ==
  /\ bridge.request.kind = "presence"
  /\ \E made \in SUBSET Unnamed :
       LET n == Cardinality(made)
           new == CHOOSE f \in [made -> DrawnIds(n)] : IsInjective(f)
       IN  /\ ids' = [d \in StillThere \union made |-> IF d \in made THEN new[d] ELSE ids[d]]
           /\ drawn' = drawn + n
           /\ IF made = Unnamed
              THEN Answer(200) /\ told' = told \union {[id |-> ids'[d], device |-> d] : d \in DOMAIN ids'}
              ELSE Answer(500) /\ UNCHANGED told

\* watch_descriptor_body: unknown, gone and not watchable are all the same.
Named == {d \in DOMAIN ids \intersect DOMAIN latest.devices : ids[d] = bridge.request.id}
WatchDescriptorBody ==
  /\ bridge.request.kind = "descriptor" /\ UNCHANGED idVars
  /\ LET target == UNION {latest.devices[d] : d \in Named}
     IN  answer' = [status |-> IF target = {} THEN 404 ELSE 200, id |-> bridge.request.id, target |-> target]

\* One connection: the request is read and answered from the latest snapshot.
Serve ==
  /\ bridge.at = "serve" /\ Serves("accept", NoRequest)
  /\ \/ Refuse
     \/ TooMany
     \/ /\ Failed(bridge.request.fails) = <<>> /\ Allowed /\ Grant
        /\ Preflight \/ PresenceBody \/ WatchDescriptorBody
  /\ UNCHANGED <<now, discoveryVars, stops, backlog, requests, trayVars, posted>>

(***************************************************************************)
(* tray.rs                                                                 *)
(***************************************************************************)
Click ==
  /\ tray.at # "down" /\ clicks = <<>> /\ clicks' \in {<<"open">>, <<"exit">>} /\ posted' = TRUE
  /\ UNCHANGED <<now, discoveryVars, stops, bridgeVars, backlog, requests, tray, shown>>

\* What run drops, in order: after an error the bridge, declared last, goes first.
Quits(order) == tray' = [at |-> "stop", parts |-> order]

\* GetMessageW, which fails or says quit as well.
Message ==
  /\ tray.at = "message" /\ posted /\ posted' = FALSE
  /\ \/ tray' = [tray EXCEPT !.at = "update"]
     \/ Quits(<<"discovery", "bridge">>) \/ Quits(<<"bridge", "discovery">>)
  /\ UNCHANGED <<now, discoveryVars, stops, bridgeVars, backlog, requests, clicks, shown>>

UpdateStatus ==
  /\ tray.at = "update" /\ shown' = latest.revision
  /\ \/ tray' = [tray EXCEPT !.at = "menu"]
     \/ shown # latest.revision /\ Quits(<<"bridge", "discovery">>)
  /\ UNCHANGED <<now, discoveryVars, stops, bridgeVars, backlog, requests, clicks, posted>>

MenuEvents ==
  /\ tray.at = "menu" /\ clicks' = <<>>
  /\ IF clicks = <<"exit">> THEN Quits(<<"discovery", "bridge">>) ELSE tray' = [tray EXCEPT !.at = "message"]
  /\ UNCHANGED <<now, discoveryVars, stops, bridgeVars, backlog, requests, posted, shown>>

\* DiscoveryOwner::stop_and_join and BridgeOwner::stop_and_join: the flag, for
\* the bridge a connection that wakes it, and the join.
Ended(part) == IF part = "discovery" THEN browser.at = "ended" ELSE bridge.at = "ended"
NoWake == UNCHANGED backlog
Wake   == IF Len(backlog) < Backlog /\ bridge.at # "ended" THEN backlog' = Append(backlog, NoRequest)
                                                           ELSE UNCHANGED backlog
StopPart ==
  /\ tray.at = "stop" /\ tray.parts # <<>>
  /\ stops' = stops \union {Head(tray.parts)} /\ tray' = [tray EXCEPT !.at = "join"]
  /\ IF Head(tray.parts) = "bridge" THEN Wake ELSE UNCHANGED backlog
  /\ UNCHANGED <<now, discoveryVars, bridgeVars, requests, clicks, shown, posted>>

JoinPart ==
  /\ tray.at = "join" /\ Ended(Head(tray.parts))
  /\ tray' = [at |-> IF Len(tray.parts) = 1 THEN "down" ELSE "stop", parts |-> Tail(tray.parts)]
  /\ UNCHANGED <<now, discoveryVars, stops, bridgeVars, backlog, requests, clicks, shown, posted>>

Tick ==
  /\ now < MaxNow /\ now' = now + 1
  /\ UNCHANGED <<discoveryVars, stops, bridgeVars, backlog, requests, trayVars, posted>>

\* The bridge may not start: then only the discovery is stopped.
Init ==
  /\ now = 0 /\ registry = <<>> /\ stops = {}
  /\ browser = [at |-> "new", lifecycle |-> "starting"] /\ latest = Snapshot(<<>>, 0, "starting")
  /\ ids = <<>> /\ drawn = 0 /\ told = {} /\ rateLimit = <<>> /\ granted = <<>> /\ backlog = <<>> /\ requests = 0
  /\ answer = [status |-> 0, id |-> 0, target |-> {}] /\ posted = FALSE /\ clicks = <<>> /\ shown = 0
  /\ \/ /\ bridge = [at |-> "accept", request |-> NoRequest] /\ tray = [at |-> "message", parts |-> <<>>]
     \/ /\ bridge = [at |-> "ended", request |-> NoRequest] /\ tray = [at |-> "stop", parts |-> <<"discovery">>]

Bridges == Accept \/ Serve
Trays   == Message \/ UpdateStatus \/ MenuEvents \/ StopPart \/ JoinPart
Next    == Discovers \/ Connect \/ Bridges \/ AcceptFails \/ Click \/ Trays \/ Tick

\* The threads run on; requests, clicks and time may stop.
Fairness == WF_vars(Discovers) /\ WF_vars(Bridges) /\ WF_vars(Trays)
Spec == Init /\ [][Next]_vars /\ Fairness

(***************************************************************************)
(* Properties.                                                             *)
(***************************************************************************)
Recent(n) == {i \in 1..Len(granted) : n - granted[i] < Window}

\* README of the crate: the page learns the devices and targets of the registry
\* as it is whenever the browser thread looks for an event, none after its end;
\* and the rate limit counts the allowed requests of a sliding window and nothing
\* else.
SeesTheRegistry ==
  /\ browser.at \in {"check", "recv"} =>
       latest.devices = Snapshot(registry, 0, "").devices /\ latest.lifecycle = browser.lifecycle
  /\ browser.at = "ended" => DOMAIN latest.devices = {} /\ latest.lifecycle \in {"stopped", "failed"}
  /\ Cardinality(Recent(now)) <= Burst
  /\ bridge.at = "serve" => (Allowed <=> Cardinality(Recent(now)) < Burst)

\* An id that the page was told is of one device for ever, though devices leave
\* and others come between its requests, and no more ids are kept than devices
\* fit the registry.
IdsAreOpaque ==
  /\ \A t, u \in told : t.id = u.id => t.device = u.device
  /\ \A d \in DOMAIN ids : \A t \in told : t.id = ids[d] => t.device = d
  /\ Cardinality(DOMAIN ids) <= MaxDevices

\* A device keeps its id while it stays, and an id that was dropped never comes
\* back, not even for the device it was of.
IdsAreKept ==
  /\ \A d \in DOMAIN ids : d \in DOMAIN latest.devices => d \in DOMAIN ids' /\ ids'[d] = ids[d]
  /\ \A d \in DOMAIN ids' : d \notin DOMAIN ids => ids'[d] \notin {t.id : t \in told}

\* What a request with an id is answered is how the device that the page was
\* told the id for can be watched, if it is there now.
DescribesTheDevice ==
  answer' # answer /\ answer'.target # {} =>
    \E t \in told : /\ t.id = answer'.id /\ t.device \in DOMAIN latest.devices
                     /\ answer'.target = latest.devices[t.device]

PageSees == SeesTheRegistry /\ IdsAreOpaque
PageIsServed == IdsAreKept /\ DescribesTheDevice
PageSeesTheDirectory == []PageSees /\ [][PageIsServed]_vars
=============================================================================
