----------------------------- MODULE MqttClient -----------------------------
(***************************************************************************)
(* The MQTT client of the uploader: AWSIoTMQTTClient                       *)
(* (common/meterhub_common/aws_mqtt_client.py) over paho-mqtt 1.6, the     *)
(* version poetry.lock pins.  paho runs a network thread of its own, so    *)
(* its steps interleave with every step of the asyncio task that calls     *)
(* connect() and publish().                                                *)
(*                                                                         *)
(*   net        the broker can be reached and accepts the device           *)
(*   certs      the certificate files are installed                        *)
(*   tls        paho holds a TLS context; it takes one only once           *)
(*   thread     loop_start() has been called: the network thread runs      *)
(*   sock       paho's MQTT session is up                                  *)
(*   connected  AWSIoTMQTTClient.connected, set by paho's callbacks        *)
(*   outq       paho's outgoing QoS 1 messages awaiting their PUBACK,      *)
(*              each the set of readings in its payload                    *)
(*   cloud      the readings the cloud has received, by either transport   *)
(***************************************************************************)
EXTENDS Naturals, FiniteSets

CONSTANT MaxQueued   \* bound of the model: messages in paho's queue

ASSUME MqttAssumption == MaxQueued \in Nat

VARIABLES net, certs, tls, thread, sock, connected, outq, cloud

session == <<tls, thread, sock, connected>>
mqttVars == <<net, certs, session, outq, cloud>>

MqttInit ==
  /\ net \in BOOLEAN /\ certs \in BOOLEAN
  /\ tls = FALSE /\ thread = FALSE /\ sock = FALSE /\ connected = FALSE
  /\ outq = {} /\ cloud = {}

\* A new AWSIoTMQTTClient in a new process: everything paho kept is gone.
FreshClient ==
  /\ tls' = FALSE /\ thread' = FALSE /\ sock' = FALSE /\ connected' = FALSE
  /\ outq' = {}

-----------------------------------------------------------------------------
(* connect() up to its first await *)

\* set_tls, client.connect and loop_start succeed: wait for on_connect.
ConnectBegins ==
  /\ ~tls /\ certs /\ net
  /\ tls' = TRUE /\ thread' = TRUE
  /\ UNCHANGED <<net, certs, sock, connected, outq, cloud>>

\* set_tls raises, for want of a certificate or because paho has a context
\* ("SSL/TLS has already been configured"); or client.connect raises a
\* socket error, and the context stays.  connect() returns False at once.
ConnectFails ==
  /\ tls \/ ~certs \/ ~net
  /\ tls' = (tls \/ certs)
  /\ UNCHANGED <<net, certs, thread, sock, connected, outq, cloud>>

-----------------------------------------------------------------------------
(* One attempt of publish() *)

\* paho queues a QoS 1 message before it looks at the socket.
Queue(payload) ==
  /\ outq' = outq \cup {payload}
  /\ Cardinality(outq') <= MaxQueued
  /\ UNCHANGED <<net, certs, session, cloud>>

\* MQTT_ERR_SUCCESS: the message is on its way, which is all publish() asks.
PublishSucceeds(payload) == sock /\ Queue(payload)

\* MQTT_ERR_NO_CONN: an error to the caller, yet the message stays queued.
PublishErrs(payload) == ~sock /\ Queue(payload)

-----------------------------------------------------------------------------
(* paho's network thread, and the network *)

NetChanges ==
  /\ net' = ~net
  /\ UNCHANGED <<certs, session, outq, cloud>>

\* The device is commissioned.
CertsInstalled ==
  /\ ~certs /\ certs' = TRUE
  /\ UNCHANGED <<net, session, outq, cloud>>

\* CONNACK with rc 0, on the first connection or on a reconnection.
SessionUp ==
  /\ thread /\ net /\ ~sock /\ ~connected
  /\ sock' = TRUE /\ connected' = TRUE
  /\ UNCHANGED <<net, certs, tls, thread, outq, cloud>>

\* The socket closes, or the keepalive runs out; the callback comes later.
SessionDown ==
  /\ sock
  /\ sock' = FALSE
  /\ UNCHANGED <<net, certs, tls, thread, connected, outq, cloud>>

OnDisconnect ==
  /\ ~sock /\ connected
  /\ connected' = FALSE
  /\ UNCHANGED <<net, certs, tls, thread, sock, outq, cloud>>

\* The broker takes the message and its PUBACK arrives.
Deliver(payload) ==
  /\ sock /\ net /\ payload \in outq
  /\ outq' = outq \ {payload}
  /\ cloud' = cloud \cup payload
  /\ UNCHANGED <<net, certs, session>>

\* The broker takes the message; the session ends before the PUBACK, so paho
\* will send it again.
DeliverUnacked(payload) ==
  /\ sock /\ net /\ payload \in outq
  /\ cloud' = cloud \cup payload
  /\ sock' = FALSE
  /\ UNCHANGED <<net, certs, tls, thread, connected, outq>>

PahoStep ==
  \/ SessionUp \/ OnDisconnect
  \/ \E payload \in outq : Deliver(payload)

MqttStep ==
  \/ NetChanges \/ CertsInstalled \/ SessionDown \/ PahoStep
  \/ \E payload \in outq : DeliverUnacked(payload)

\* The part of the uploader's type invariant that is about its MQTT client.
MqttTypeOK ==
  /\ net \in BOOLEAN /\ certs \in BOOLEAN /\ tls \in BOOLEAN /\ thread \in BOOLEAN
  /\ sock \in BOOLEAN /\ connected \in BOOLEAN
  /\ outq \subseteq SUBSET Nat /\ cloud \subseteq Nat
  /\ (sock => thread) /\ (thread => tls)
=============================================================================
