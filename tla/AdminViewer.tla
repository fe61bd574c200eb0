----------------------------- MODULE AdminViewer -----------------------------
(***************************************************************************)
(* The way of a ship command from the admin viewer to the engine: the      *)
(* queue the frame loop fills, a forwarder for every connection ever made  *)
(* (marita-admin/src/client.rs), the request stream of the connection, the *)
(* engine's channel, and the tick that flies the ship by the first command *)
(* it finds (marita-core/src/tick.rs).                                     *)
(*                                                                         *)
(* A forwarder ends only when a send fails, so those of earlier            *)
(* connections live on beside the present one and take commands from the   *)
(* same queue.  How long the request stream of a connection outlives its   *)
(* answers is up to the HTTP/2 libraries and left open.                    *)
(***************************************************************************)
EXTENDS TickBroadcast

CONSTANT MaxPushed   \* bound of the model: frames that push a command

VARIABLES
  pushed,       \* commands pushed so far; a command is its number
  queue,        \* CommandHandle.queue
  forwarders,   \* connections whose forwarder is alive
  uplink,       \* of each connection: commands in its request stream
  open,         \* connections whose request stream is open
  channel,      \* command_tx
  flown,        \* history: the commands a ship was flown by, in order
  passedOver,   \* history: commands drained by a tick but not the first in it
  lost          \* history: commands that went down with a connection

adminVars == <<pushed, queue, forwarders, uplink, open, channel, flown, passedOver, lost>>

Link == 1..MaxLinks

AdminInit ==
  /\ pushed = 0
  /\ queue = <<>>
  /\ forwarders = {} /\ open = {}
  /\ uplink = [k \in Link |-> <<>>]
  /\ channel = <<>> /\ flown = <<>>
  /\ passedOver = {} /\ lost = {}

\* AdminApp::update sends the controls of the selected ship in every frame
\* once there is a state to select it in.
PushCommand ==
  /\ user = "Admin"
  /\ shown # 0
  /\ pushed < MaxPushed
  /\ pushed' = pushed + 1
  /\ queue' = Append(queue, pushed + 1)
  /\ UNCHANGED <<broadcastVars, forwarders, uplink, open, channel, flown, passedOver, lost>>

\* connect_and_stream: a new request stream and a forwarder for it.
AdminConnect ==
  /\ user = "Admin"
  /\ Connect
  /\ forwarders' = forwarders \cup {links + 1}
  /\ open' = open \cup {links + 1}
  /\ UNCHANGED <<pushed, queue, uplink, channel, flown, passedOver, lost>>

\* Mutant: commands are copied to the request stream and stay in the queue.
ForwardCopy(k) ==
  /\ k \in forwarders \cap open
  /\ queue # <<>>
  /\ uplink' = [uplink EXCEPT ![k] = @ \o queue]
  /\ UNCHANGED <<broadcastVars, pushed, queue, forwarders, open, channel, flown, passedOver, lost>>

\* command_forwarder empties the queue under its lock.
Forward(k) ==
  /\ k \in forwarders \cap open
  /\ queue # <<>>
  /\ uplink' = [uplink EXCEPT ![k] = @ \o queue]
  /\ queue' = <<>>
  /\ UNCHANGED <<broadcastVars, pushed, forwarders, open, channel, flown, passedOver, lost>>

\* A forwarder whose stream is gone notices with a command in hand.
ForwardInVain(k) ==
  /\ k \in forwarders \ open
  /\ queue # <<>>
  /\ queue' = Tail(queue)
  /\ lost' = lost \cup {Head(queue)}
  /\ forwarders' = forwarders \ {k}
  /\ UNCHANGED <<broadcastVars, pushed, uplink, open, channel, flown, passedOver>>

\* The task of stream_commands passes a command on.
Deliver(k) ==
  /\ engine = "up"
  /\ k \in open
  /\ uplink[k] # <<>>
  /\ channel' = Append(channel, Head(uplink[k]))
  /\ uplink' = [uplink EXCEPT ![k] = Tail(@)]
  /\ UNCHANGED <<broadcastVars, pushed, queue, forwarders, open, flown, passedOver, lost>>

\* The request stream of a connection that is over comes to its end.
CloseUplink(k) ==
  /\ k \in open
  /\ k < links \/ conn = "down" \/ engine = "down"
  /\ open' = open \ {k}
  /\ lost' = lost \cup Range(uplink[k])
  /\ uplink' = [uplink EXCEPT ![k] = <<>>]
  /\ UNCHANGED <<broadcastVars, pushed, queue, forwarders, channel, flown, passedOver>>

\* A tick drains the channel; step finds the first command of the ship.
FlyTick(seen) ==
  /\ Publish(seen)
  /\ flown' = IF channel = <<>> THEN flown ELSE Append(flown, Head(channel))
  /\ passedOver' = IF channel = <<>> THEN passedOver ELSE passedOver \cup Range(Tail(channel))
  /\ channel' = <<>>
  /\ UNCHANGED <<pushed, queue, forwarders, uplink, open, lost>>

\* With the process, the commands in its channel and its sockets are gone.
AdminCrash ==
  /\ Crash
  /\ channel' = <<>>
  /\ open' = {}
  /\ uplink' = [k \in Link |-> <<>>]
  /\ lost' = lost \cup Range(channel) \cup UNION {Range(uplink[k]) : k \in Link}
  /\ UNCHANGED <<pushed, queue, forwarders, flown, passedOver>>

AdminTakeIn ==
  /\ user = "Admin"
  /\ TakeIn
  /\ UNCHANGED adminVars

AdminNext ==
  \/ PushCommand
  \/ \E k \in Link : Forward(k) \/ ForwardInVain(k) \/ Deliver(k) \/ CloseUplink(k)

=============================================================================
