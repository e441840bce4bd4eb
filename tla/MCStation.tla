----------------------------- MODULE MCStation ------------------------------
(***************************************************************************)
(* The listener and mqtt_send on small instances.  They share no state, so *)
(* that each behaviour moves one of them, and the other rests in an        *)
(* initial state: `part' says which one moves.                             *)
(*                                                                         *)
(* Listener: all receivers and options; three handles stand for as many as *)
(* a process may have.  MQTT: five messages, so that a connection that is  *)
(* being read, one that waits and one that is being opened can exist at    *)
(* the same time.                                                          *)
(***************************************************************************)
EXTENDS Listener, MqttSend

VARIABLE part

StationInit ==
  /\ Init /\ MInit
  /\ \/ part = "listener" /\ ~up
     \/ /\ part = "mqtt" /\ receiver = "serial"
        /\ ~forward /\ ~root /\ ~plugged /\ ~dstok

StationNext ==
  \/ part = "listener" /\ Next /\ UNCHANGED <<part, mqttVars>>
  \/ part = "mqtt" /\ MNext /\ UNCHANGED <<part, vars>>

(* The fairness of Listener and of MqttSend. *)
StationSpec ==
  /\ StationInit /\ [][StationNext]_<<part, vars, mqttVars>>
  /\ WF_<<part, vars, mqttVars>>(part = "listener" /\ Program /\ UNCHANGED <<part, mqttVars>>)
  /\ WF_<<part, vars, mqttVars>>(part = "mqtt" /\ BrokerReads /\ UNCHANGED <<part, vars>>)

-----------------------------------------------------------------------------
(* Listener: SIGINT ends the program, and until then its retries lead back *)
(* to a port that is there, but for what it cannot recover from.           *)
EndsOrReadsAgain == EndsOnSigint /\ ReadsOrTrapped
=============================================================================
