---------------------------- MODULE DeltaBridge ----------------------------
(***************************************************************************)
(* The Eluminocity companion, delta-bridge: its main loop, the MQTT        *)
(* adapter and client, the commands that write the charger's shared        *)
(* memory, and the web server's control and configuration requests.        *)
(* The broker, the network and the stock daemons that share the memory     *)
(* are external.  The loop is one thread; a step of it is one of the       *)
(* numbered blocks of main, and everything else happens between them.      *)
(***************************************************************************)
EXTENDS Integers, SequencesExt

CONSTANTS
  Volts, Pilots, Amps, Users,  \* what the stock daemons write: volts in units of the epsilon
  Commands,                    \* what the dashboard or the web page sends
  RX_PIECES,                   \* MQTT_CLIENT_RX_BUF, in halves of a packet
  TX_AHEAD,                    \* bound: the messages the network holds before a send waits
  Budgets                      \* bounds: how often what may happen, chosen at the start

ASSUME BridgeAssumption ==
  /\ Volts \subseteq Int /\ RX_PIECES \in Nat \ {0} /\ TX_AHEAD \in Nat /\ "unknown" \in Pilots
  /\ Budgets \subseteq [drops : Nat, commands : Nat, changes : Nat, posts : Nat, restarts : Nat]

VARIABLES
  shm,       \* the fields of the shared memory
  file,      \* the configuration file
  proc,      \* the process: where its loop is, cfg, and what it copied from cfg at its start
  client,    \* mqtt_client: fd open, rx
  net,       \* the connection: alive, tx to the broker, down to the bridge
  broker,    \* session open, subscription, retained values
  budget     \* for the bounds

bridgeVars == <<shm, file, proc, client, net, broker, budget>>

Topics == {"volt", "amps", "pilot", "user", "faults", "auth"}
Exact  == {"amps", "pilot", "user", "faults", "auth"}

config_defaults == [write |-> FALSE, web |-> FALSE]

\* charger_state_init.
Unknown == [volt |-> 0, pilot |-> "unknown", amps |-> 0, user |-> 0, faults |-> 0]

\* The payload of a state topic; authorize_state is a view of user_state.
Payload(s, topic) == IF topic = "auth" THEN (IF s.user >= 1 THEN 1 ELSE 0) ELSE s[topic]

Lost == [open |-> FALSE, sub |-> FALSE]
NothingRetained ==
  [volt |-> -1, amps |-> -1, pilot |-> "none", user |-> -1, faults |-> -1, auth |-> -1,
   availability |-> "none", discovery |-> {}]

\* The process as main starts it: the file is loaded, the segment attached, writable if
\* write_enable says so, and the web server listens if web_enable does.
Started(c) == [pc |-> "connect", cfg |-> c, write |-> c.write, web |-> c.web,
               up |-> FALSE, prev |-> Unknown]

\* Mutant: the receive buffer outlives the connection.
mqtt_client_init_KeepsRx == [fd |-> FALSE, rx |-> client.rx]

mqtt_client_init == [fd |-> FALSE, rx |-> <<>>]

BridgeInit ==
  /\ shm \in [volt : {0}, pilot : {"unknown"}, amps : Amps, user : {0}, faults : {0}]
  /\ file \in [write : BOOLEAN, web : {TRUE}]
  /\ proc = Started(file)
  /\ client = [fd |-> FALSE, rx |-> <<>>]
  /\ net = [alive |-> FALSE, tx |-> <<>>, down |-> <<>>]
  /\ broker = [session |-> Lost, retained |-> NothingRetained]
  /\ budget \in Budgets

Spend(what) == budget[what] > 0 /\ budget' = [budget EXCEPT ![what] = @ - 1]
Goto(next)  == [proc EXCEPT !.pc = next]

-----------------------------------------------------------------------------
(* Commands: commands.c, shared by MQTT and HTTP. *)

cs_apply_write(s, c) ==
  CASE c[1] = "amps" /\ c[2] \in 6..30 -> [s EXCEPT !.amps = c[2]]
    [] c[1] = "auth" -> [s EXCEPT !.user = c[2]]
    [] c[1] = "clear_faults" -> [s EXCEPT !.faults = 0]
    [] OTHER -> s

\* on_command for the packets of a tick, in their order.
on_commands(packets) ==
  IF proc.write THEN FoldLeft(cs_apply_write, shm, packets) ELSE shm

\* Mutant: what a command wrote counts as published.
AfterCommands_Known(packets) ==
  [proc EXCEPT !.pc = "web", !.prev = FoldLeft(cs_apply_write, @, packets)]

AfterCommands(packets) == [proc EXCEPT !.pc = "web"]

-----------------------------------------------------------------------------
(* Sending.  A send on a live link is accepted, or the link dies with it; on a link that
   is dead already it may still be accepted, and is lost. *)

Sends(msgs) ==
  /\ client.fd
  /\ net' = [net EXCEPT !.tx = IF net.alive THEN @ \o msgs ELSE @]

\* A prefix is accepted; the failure closes the socket, and the DISCONNECT does not arrive.
SendFails(msgs) ==
  /\ msgs # <<>>
  /\ IF client.fd /\ net.alive
     THEN /\ \E k \in 0..Len(msgs) - 1 : net' = [net EXCEPT !.alive = FALSE, !.down = <<>>,
                                                           !.tx = SubSeq(@ \o msgs, 1, k)]
          /\ Spend("drops")
     ELSE UNCHANGED <<net, budget>>
  /\ client' = mqtt_client_init

\* mqtt_client_disconnect on a link that still carries the DISCONNECT.
mqtt_client_disconnect ==
  /\ client' = mqtt_client_init
  /\ net' = [net EXCEPT !.tx = IF net.alive THEN Append(@, <<"disconnect">>) ELSE @]

-----------------------------------------------------------------------------
(* 2. Connect. *)

\* The session the broker opens ends an older one of the same client, whose will it publishes.
NewSession ==
  broker' = [session |-> [open |-> TRUE, sub |-> FALSE],
             retained |-> [broker.retained EXCEPT
               !.availability = IF broker.session.open THEN "offline" ELSE @]]

InitMessages ==
  <<<<"availability", "online">>>> \o (IF proc.write THEN <<<<"subscribe">>>> ELSE <<>>)

\* Mutant: the first poll after a reconnect compares with the last one before it.
Connected_KeepsPrev == [proc EXCEPT !.pc = "publish", !.up = TRUE]

\* The reset of prev makes the next publication a full one.
Connected == [proc EXCEPT !.pc = "publish", !.up = TRUE, !.prev = Unknown]

nb_init ==
  /\ proc.pc = "connect" /\ ~proc.up
  /\ NewSession
  /\ client' = [mqtt_client_init EXCEPT !.fd = TRUE]
  /\ net' = [alive |-> TRUE, tx |-> InitMessages, down |-> <<>>]
  /\ proc' = Connected
  /\ UNCHANGED <<shm, file, budget>>

\* The link dies while nb_init sends: a failed subscription fails nb_init, a failed
\* "online" alone is not noticed before the first publication.
nb_init_fails ==
  /\ proc.pc = "connect" /\ ~proc.up /\ Spend("drops")
  /\ NewSession
  /\ client' = mqtt_client_init
  /\ \E k \in 0..Len(InitMessages) - 1 :
       net' = [alive |-> FALSE, tx |-> SubSeq(InitMessages, 1, k), down |-> <<>>]
  /\ proc' = IF proc.write THEN Goto("publish") ELSE Connected
  /\ UNCHANGED <<shm, file>>

\* Up already, the backoff has not run out, or the broker is not reached.
NoConnect ==
  /\ proc.pc = "connect" /\ proc' = Goto("publish")
  /\ UNCHANGED <<shm, file, client, net, broker, budget>>

-----------------------------------------------------------------------------
(* 3. Read, compare, publish. *)

Far(a, b) == a - b > 1 \/ b - a > 1

charger_state_diff(p, c) ==
  {t \in Topics : IF t = "volt" THEN Far(p.volt, c.volt) ELSE Payload(p, t) # Payload(c, t)}

Full == proc.prev.pilot = "unknown" /\ proc.prev.volt = 0

Publication(t) ==
  IF Full \/ t \in charger_state_diff(proc.prev, shm) THEN <<<<t, Payload(shm, t)>>>> ELSE <<>>

\* publish_all_discovery offers the controls only to a bridge that may write; then come
\* the topics.
Publications ==
  (IF Full THEN <<<<"discovery", proc.write>>>> ELSE <<>>)
    \o Publication("volt") \o Publication("amps") \o Publication("pilot")
    \o Publication("user") \o Publication("faults") \o Publication("auth")

Publish ==
  /\ proc.pc = "publish" /\ proc.up
  /\ net.alive => Len(net.tx) <= TX_AHEAD
  /\ \/ /\ Publications = <<>> /\ UNCHANGED <<client, net, budget>>
        /\ proc' = [proc EXCEPT !.pc = "tick", !.prev = shm]
     \/ /\ Publications # <<>> /\ Sends(Publications) /\ UNCHANGED <<client, budget>>
        /\ proc' = [proc EXCEPT !.pc = "tick", !.prev = shm]
     \/ /\ SendFails(Publications)
        /\ proc' = [proc EXCEPT !.pc = "web", !.up = FALSE]
  /\ UNCHANGED <<shm, file, broker>>

NotUp ==
  /\ proc.pc = "publish" /\ ~proc.up /\ proc' = Goto("web")
  /\ UNCHANGED <<shm, file, client, net, broker, budget>>

-----------------------------------------------------------------------------
(* 4. Housekeeping: mqtt_client_tick. *)

Complete(rx) == [i \in 1..(Len(rx) \div 2) |-> rx[2 * i - 1].cmd]
Intact(rx)   == \A i \in 1..(Len(rx) \div 2) :
                  rx[2 * i - 1].half = 1 /\ rx[2 * i] = [rx[2 * i - 1] EXCEPT !.half = 2]

\* What has arrived is read, then the complete packets are taken off the front.
TickReceives ==
  /\ proc.pc = "tick" /\ client.fd
  /\ \E n \in 0..Len(net.down) :
       LET rx == client.rx \o SubSeq(net.down, 1, n) IN
       /\ Len(rx) < RX_PIECES /\ Intact(rx)
       /\ shm' = on_commands(Complete(rx))
       /\ client' = [client EXCEPT !.rx = SubSeq(rx, 2 * (Len(rx) \div 2) + 1, Len(rx))]
       /\ net' = [net EXCEPT !.down = SubSeq(@, n + 1, Len(@))]
       /\ proc' = AfterCommands(Complete(rx))
  /\ UNCHANGED <<file, broker, budget>>

\* The buffer is full, or what is in it is no packet: the link is given up and whatever
\* the buffer held is dropped, complete commands included.
TickGivesUp ==
  /\ proc.pc = "tick" /\ client.fd
  /\ LET rx == client.rx \o net.down IN Len(rx) >= RX_PIECES \/ ~Intact(rx)
  /\ mqtt_client_disconnect
  /\ proc' = [proc EXCEPT !.pc = "web", !.up = FALSE]
  /\ UNCHANGED <<shm, file, broker, budget>>

\* recv or the keepalive's send sees the dead link, before anything that came in with
\* its end is looked at; or the socket was closed by a send that failed earlier.
TickSeesDown ==
  /\ proc.pc = "tick" /\ (~client.fd \/ ~net.alive)
  /\ client' = mqtt_client_init
  /\ proc' = [proc EXCEPT !.pc = "web", !.up = FALSE]
  /\ UNCHANGED <<shm, file, net, broker, budget>>

-----------------------------------------------------------------------------
(* 5. The web server, and the process. *)

NoRequest ==
  /\ proc.pc = "web" /\ proc' = Goto("connect")
  /\ UNCHANGED <<shm, file, client, net, broker, budget>>

handle_post_command ==
  /\ proc.pc = "web" /\ proc.web /\ Spend("posts")
  /\ \E c \in Commands : shm' = on_commands(<<c>>)
  /\ UNCHANGED <<file, proc, client, net, broker>>

\* The keys are applied to the live configuration one by one: one that is refused (400),
\* and a file that cannot be opened (500), leave the earlier ones applied.
handle_post_config ==
  /\ proc.pc = "web" /\ proc.web /\ Spend("posts")
  /\ \E c \in [write : BOOLEAN, web : BOOLEAN], stored \in BOOLEAN :
       /\ proc' = [proc EXCEPT !.cfg = c]
       /\ file' = IF stored THEN proc'.cfg ELSE file
  /\ UNCHANGED <<shm, client, net, broker>>

\* /api/restart: execv keeps the broker's connection open, and nobody reads it any more; it
\* keeps the listening socket too, so the new server is up only if the file names another port.
do_restart ==
  /\ proc.pc = "web" /\ proc.web /\ Spend("restarts")
  /\ \E free \in BOOLEAN : proc' = [Started(file) EXCEPT !.web = @ /\ free]
  /\ client' = mqtt_client_init
  /\ UNCHANGED <<shm, file, net, broker>>

\* nb_shutdown, then the supervisor starts the process again.
Shutdown ==
  /\ proc.pc = "connect" /\ Spend("restarts")
  /\ net' = [net EXCEPT !.tx = IF client.fd /\ net.alive
                               THEN @ \o <<<<"availability", "offline">>, <<"disconnect">>>> ELSE @]
  /\ proc' = Started(file) /\ client' = mqtt_client_init
  /\ UNCHANGED <<shm, file, broker>>

\* Power goes; while the file is written (fopen "wb") it leaves the defaults behind.
PowerGoes ==
  /\ Spend("restarts")
  /\ file' \in (IF proc.pc = "web" /\ proc.web THEN {file, config_defaults} ELSE {file})
  /\ proc' = Started(file') /\ client' = mqtt_client_init
  /\ net' = [net EXCEPT !.alive = FALSE, !.down = <<>>]
  /\ UNCHANGED <<shm, broker>>

-----------------------------------------------------------------------------
(* Broker, network, dashboard and stock daemons. *)

Received(b, m) ==
  CASE m[1] = "subscribe"  -> [b EXCEPT !.session.sub = TRUE]
    [] m[1] = "disconnect" -> [b EXCEPT !.session = Lost]
    [] m[1] = "discovery"  -> [b EXCEPT !.retained.discovery = @ \cup {m[2]}]
    [] OTHER               -> [b EXCEPT !.retained[m[1]] = m[2]]

BrokerReceives ==
  /\ broker.session.open /\ net.tx # <<>>
  /\ broker' = Received(broker, Head(net.tx)) /\ net' = [net EXCEPT !.tx = Tail(@)]
  /\ UNCHANGED <<shm, file, proc, client, budget>>

\* A lost connection that was not closed with a DISCONNECT: the will.
BrokerNotices ==
  /\ broker.session.open /\ ~net.alive /\ net.tx = <<>>
  /\ broker' = [session |-> Lost, retained |-> [broker.retained EXCEPT !.availability = "offline"]]
  /\ UNCHANGED <<shm, file, proc, client, net, budget>>

\* What is on its way is lost from some place on.
LinkDies ==
  /\ net.alive /\ Spend("drops")
  /\ \E i \in 0..Len(net.tx), j \in 0..Len(net.down) :
       net' = [alive |-> FALSE, tx |-> SubSeq(net.tx, 1, i), down |-> SubSeq(net.down, 1, j)]
  /\ UNCHANGED <<shm, file, proc, client, broker>>

\* A broker without persistence comes back empty.
BrokerRestarts ==
  /\ Spend("drops")
  /\ broker' = [session |-> Lost, retained |-> NothingRetained]
  /\ net' = [alive |-> FALSE, tx |-> <<>>, down |-> <<>>]
  /\ UNCHANGED <<shm, file, proc, client>>

HaCommands ==
  /\ Spend("commands")
  /\ \E c \in Commands :
       net' = [net EXCEPT !.down = IF broker.session.open /\ broker.session.sub /\ net.alive
                 THEN @ \o [h \in 1..2 |-> [id |-> budget.commands, cmd |-> c, half |-> h]] ELSE @]
  /\ UNCHANGED <<shm, file, proc, client, broker>>

StockWrites ==
  /\ Spend("changes")
  /\ \/ \E v \in Volts : shm' = [shm EXCEPT !.volt = v]
     \/ \E p \in Pilots : shm' = [shm EXCEPT !.pilot = p]
     \/ \E u \in Users : shm' = [shm EXCEPT !.user = u]
     \/ shm' = [shm EXCEPT !.faults = 1]
  /\ UNCHANGED <<file, proc, client, net, broker>>

Loop ==
  \/ nb_init \/ nb_init_fails \/ NoConnect \/ Publish \/ NotUp
  \/ TickReceives \/ TickGivesUp \/ TickSeesDown \/ NoRequest

BridgeNext ==
  \/ nb_init \/ nb_init_fails \/ NoConnect \/ Publish \/ NotUp
  \/ TickReceives \/ TickGivesUp \/ TickSeesDown
  \/ NoRequest \/ handle_post_command \/ handle_post_config \/ do_restart \/ Shutdown \/ PowerGoes
  \/ BrokerReceives \/ BrokerNotices \/ LinkDies \/ BrokerRestarts \/ HaCommands \/ StockWrites

\* The loop runs forever; a broker that is tried again and again is reached at last, and a
\* dead link is noticed, by the keepalive if by nothing else.
BridgeFairness ==
  /\ WF_bridgeVars(Loop) /\ SF_bridgeVars(nb_init) /\ SF_bridgeVars(TickSeesDown)
  /\ WF_bridgeVars(BrokerReceives) /\ WF_bridgeVars(BrokerNotices)

BridgeSpec == BridgeInit /\ [][BridgeNext]_bridgeVars /\ BridgeFairness

-----------------------------------------------------------------------------
\* What the buffer and the network hold for the bridge is a run of whole packets, but for
\* a first half at the end of the buffer: no piece of an old connection, or of one that
\* died in the middle of a packet, ever stands before a command of a new one.
StreamAligned ==
  client.fd /\ net.alive =>
    LET s == client.rx \o net.down IN Len(s) % 2 = 0 /\ Intact(s)

\* No message is on topic t; the last one on t says v.
Silent(tx, t) == \A i \in DOMAIN tx : tx[i][1] # t
Says(tx, t, v) ==
  \E i \in DOMAIN tx : /\ tx[i][1] = t /\ tx[i][2] = v
                       /\ \A j \in DOMAIN tx : j > i => tx[j][1] # t

\* The broker retains v under t once it has taken what is on its way.
Settles(b, tx, t, v) == (b.retained[t] = v /\ Silent(tx, t)) \/ Says(tx, t, v)

\* On a live link, what the broker is going to retain is what the bridge remembers as
\* published - whoever changed the memory, and when.
PrevIsPublished ==
  (proc.up /\ client.fd /\ net.alive /\ broker.session.open /\ proc.pc \in {"tick", "web"}) =>
    \A t \in Exact : Settles(broker, net.tx, t, Payload(proc.prev, t))

\* When links stay up and nobody writes any more, the dashboard comes to show the memory,
\* as available and with the controls the configuration grants - after lost publications,
\* restarts of either end and a broker that forgot everything.
BrokerCatchesUp ==
  <>[](/\ \A t \in Exact : broker.retained[t] = Payload(shm, t)
       /\ broker.retained.availability = "online"
       /\ proc.write \in broker.retained.discovery)
=============================================================================
