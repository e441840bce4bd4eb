------------------------------- MODULE Bridge -------------------------------
(***************************************************************************)
(* A bridge of the broker that has several addresses (bridge.c and the     *)
(* part of loop.c that restarts bridges): which address is tried, when,    *)
(* and how the bridge returns to the first one.                            *)
(*                                                                         *)
(* The sockets do not block.  An address works, or its connections fail    *)
(* later, or it is unknown: then the attempt itself fails (no such host).  *)
(* Timers hold the seconds left, -1 standing for a time of 0 (not set).    *)
(***************************************************************************)
EXTENDS Integers

CONSTANTS
  address_count,
  StartTypes,              \* of "automatic", "lazy"
  backoff_base,
  backoff_cap,             \* 0: restart_timeout is always backoff_base
  Randoms,                 \* what util__random_bytes may fill in
  PrimaryRetry,            \* seconds between two looks at the first address
  threshold, MaxMsgs,      \* bound: messages that wait
  MaxChanges               \* bound: changes of what works

VARIABLES
  start_type, round_robin, \* the configuration
  immediate,               \* connect() may succeed at once (the same host)
  conn,                    \* context->sock: "none", "pending" or "active"
  at,                      \* the address it is connected to
  cur_address, restart_t, restart_timeout,
  primary_retry, primary_retry_sock,
  lazy_reconnect, msgs,    \* messages that wait for the bridge
  reach, changes           \* what works: the environment

bridge == <<cur_address, restart_t, restart_timeout, primary_retry,
            primary_retry_sock, lazy_reconnect>>
config == <<start_type, round_robin, immediate>>
vars == <<config, conn, at, bridge, msgs, reach, changes>>

Addresses == 0..address_count - 1
NextAddress == IF cur_address + 1 = address_count THEN 0 ELSE cur_address + 1

-----------------------------------------------------------------------------
(* % of C takes the sign of the left operand. *)
Rem(a, n) == IF a >= 0 THEN a % n ELSE -((-a) % n)
Magnitude(n) == IF n < 0 THEN -n ELSE n

(* rand_between, with a random number that may be negative; "Decorrelated  *)
(* jitter" between the base and three times the last timeout.              *)
Backoff(r) ==
  LET next == Rem(r, Magnitude(restart_timeout * 3 - backoff_base)) + backoff_base
  IN IF backoff_cap = 0 THEN restart_timeout
     ELSE IF next > backoff_cap THEN backoff_cap ELSE next

(* bridge__connect.  restart_t is 0 afterwards, whatever the outcome; the  *)
(* next pass of the loop without a socket sets it, and the next address.   *)
Connect(r) ==
  /\ lazy_reconnect' = FALSE
  /\ restart_t' = -1
  /\ IF reach[cur_address] = "unknown"
       THEN /\ conn' = "none" /\ cur_address' = NextAddress
            /\ restart_timeout' = Backoff(r)
            /\ UNCHANGED <<at, primary_retry>>
       ELSE /\ conn' = "pending" /\ at' = cur_address
            /\ restart_timeout' = IF backoff_cap = 0 THEN restart_timeout ELSE backoff_base
            /\ primary_retry' = IF ~round_robin /\ cur_address # 0
                                  THEN PrimaryRetry ELSE primary_retry
            /\ UNCHANGED cur_address
  /\ UNCHANGED <<config, primary_retry_sock, msgs, reach, changes>>

(* bridge__new makes the first attempt and goes on if it fails. *)
Init ==
  /\ start_type \in StartTypes /\ round_robin \in BOOLEAN /\ immediate \in BOOLEAN
  /\ reach \in [Addresses -> {"works", "fails", "unknown"}]
  /\ conn = IF reach[0] = "unknown" THEN "none" ELSE "pending"
  /\ at = 0 /\ cur_address = 0 /\ restart_t = -1 /\ restart_timeout = backoff_base
  /\ primary_retry = -1 /\ primary_retry_sock = FALSE
  /\ lazy_reconnect = FALSE /\ msgs = 0 /\ changes = 0

Later(timeout) == IF timeout < 0 THEN 0 ELSE timeout

(* Mutant: the bridge goes on with the address that failed. *)
WantRestartSame ==
  /\ conn = "none" /\ restart_t = -1
  /\ restart_t' = Later(restart_timeout) /\ cur_address' = cur_address
  /\ UNCHANGED <<config, conn, at, restart_timeout, primary_retry, primary_retry_sock,
                 lazy_reconnect, msgs, reach, changes>>

(* mosquitto_main_loop, a bridge without a socket. *)
WantRestart ==
  /\ conn = "none" /\ restart_t = -1
  /\ restart_t' = Later(restart_timeout) /\ cur_address' = NextAddress
  /\ UNCHANGED <<config, conn, at, restart_timeout, primary_retry, primary_retry_sock,
                 lazy_reconnect, msgs, reach, changes>>

Restart ==
  /\ conn = "none" /\ restart_t # -1
  /\ IF start_type = "lazy" THEN lazy_reconnect ELSE restart_t = 0
  /\ \E r \in Randoms : Connect(r)

(* The loop looks at the first address while it is connected to another. *)
Secondary ==
  conn # "none" /\ ~round_robin /\ cur_address # 0 /\ primary_retry = 0

TryPrimary ==
  /\ Secondary /\ ~primary_retry_sock
  /\ reach[0] # "unknown"
  /\ \/ /\ immediate /\ reach[0] = "works"
        /\ primary_retry' = -1 /\ conn' = "none" /\ cur_address' = 0
        /\ UNCHANGED primary_retry_sock
     \/ /\ primary_retry_sock' = TRUE
        /\ UNCHANGED <<primary_retry, conn, cur_address>>
  /\ UNCHANGED <<config, at, restart_t, restart_timeout, lazy_reconnect, msgs, reach, changes>>

(* Mutant: the first address is made the current one. *)
LookAtPrimaryZero ==
  /\ Secondary /\ primary_retry_sock
  /\ primary_retry_sock' = FALSE
  /\ \/ /\ primary_retry' = -1 /\ conn' = "none" /\ cur_address' = 0
     \/ /\ reach[0] # "works" /\ primary_retry' = PrimaryRetry
        /\ UNCHANGED <<conn, cur_address>>
  /\ UNCHANGED <<config, at, restart_t, restart_timeout, lazy_reconnect, msgs, reach, changes>>

(* SO_ERROR is 0, too, while connect() is still in progress.  The address  *)
(* before the first is made the current one: WantRestart takes the next.   *)
LookAtPrimary ==
  /\ Secondary /\ primary_retry_sock
  /\ primary_retry_sock' = FALSE
  /\ \/ /\ primary_retry' = -1 /\ conn' = "none" /\ cur_address' = address_count - 1
     \/ /\ reach[0] # "works" /\ primary_retry' = PrimaryRetry
        /\ UNCHANGED <<conn, cur_address>>
  /\ UNCHANGED <<config, at, restart_t, restart_timeout, lazy_reconnect, msgs, reach, changes>>

-----------------------------------------------------------------------------
Established ==
  /\ conn = "pending" /\ reach[at] = "works"
  /\ conn' = "active"
  /\ UNCHANGED <<config, at, bridge, msgs, reach, changes>>

(* do_disconnect, for a connection that fails or breaks. *)
Lost ==
  /\ conn # "none" /\ reach[at] # "works"
  /\ conn' = "none"
  /\ UNCHANGED <<config, at, bridge, msgs, reach, changes>>

(* mosquitto__check_keepalive; see Keepalive for when this happens. *)
IdleTimeout ==
  /\ start_type = "lazy" /\ conn = "active" /\ msgs = 0
  /\ conn' = "none"
  /\ UNCHANGED <<config, at, bridge, msgs, reach, changes>>

(* db__message_insert *)
MessageInsert ==
  /\ msgs < MaxMsgs /\ msgs' = msgs + 1
  /\ lazy_reconnect' = (lazy_reconnect \/ (start_type = "lazy" /\ conn = "none" /\ msgs' >= threshold))
  /\ UNCHANGED <<config, conn, at, cur_address, restart_t, restart_timeout,
                 primary_retry, primary_retry_sock, reach, changes>>

Deliver ==
  /\ conn = "active" /\ msgs > 0 /\ msgs' = msgs - 1
  /\ UNCHANGED <<config, conn, at, bridge, reach, changes>>

Change ==
  /\ changes < MaxChanges /\ changes' = changes + 1
  /\ reach' \in [Addresses -> {"works", "fails", "unknown"}]
  /\ UNCHANGED <<config, conn, at, bridge, msgs>>

(* A connection that works is made within a second. *)
Tick ==
  LET Less(t) == IF t > 0 THEN t - 1 ELSE t
  IN /\ restart_t > 0 \/ primary_retry > 0
     /\ conn = "pending" => reach[at] # "works"
     /\ restart_t' = Less(restart_t) /\ primary_retry' = Less(primary_retry)
     /\ UNCHANGED <<config, conn, at, cur_address, restart_timeout, primary_retry_sock,
                    lazy_reconnect, msgs, reach, changes>>

Loop == WantRestart \/ Restart \/ TryPrimary \/ LookAtPrimary
Network == Established \/ Lost

Next == Loop \/ Network \/ IdleTimeout \/ MessageInsert \/ Deliver \/ Change \/ Tick

(* The loop goes round every 100 ms; a connection that is being made       *)
(* succeeds or fails.                                                      *)
Spec == Init /\ [][Next]_vars /\ WF_vars(Loop) /\ WF_vars(Network) /\ WF_vars(Tick)

-----------------------------------------------------------------------------
(* mosquitto.conf, round_robin: "If the connection fails, the other        *)
(* secondary addresses will be attempted in turn."  Where attempts fail    *)
(* later and one address works, the bridge is connected again and again.   *)
(* Not so if connect() succeeds at once: TryPrimary then gives up the      *)
(* connection, and WantRestart takes the address behind the first.         *)
AddressesInTurn ==
  (start_type = "automatic" /\ ~immediate /\ <>[](/\ \A a \in Addresses : reach[a] # "unknown"
                                    /\ \E a \in Addresses : reach[a] = "works"))
    => []<>(conn = "active")

(* "Whilst connected to a secondary bridge, the bridge will periodically   *)
(* attempt to reconnect to the main bridge until successful": once all     *)
(* addresses work, it ends up with the first one and stays there.          *)
PrimaryInTheEnd ==
  (start_type = "automatic" /\ ~round_robin /\ ~immediate /\ <>[](\A a \in Addresses : reach[a] = "works"))
    => <>[](conn = "active" /\ at = 0)

(* The first of the two, for hosts that cannot be looked up, too.          *)
EveryAddressTried ==
  (start_type = "automatic" /\ ~immediate /\ <>[](\E a \in Addresses : reach[a] = "works"))
    => []<>(conn = "active")
=============================================================================
