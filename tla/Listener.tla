------------------------------ MODULE Listener ------------------------------
(***************************************************************************)
(* listener.cpp: startListen calls the receiver again and again, with a    *)
(* wait of five seconds in between, until SIGINT; and the four receivers   *)
(* it calls (read.cpp, readGPIO.cpp, readFTDI.cpp, readwin.cpp): the run   *)
(* flag, the port they read, and the handles they open on it.  Only the    *)
(* control of a receiver is here; what its bytes mean is in modules        *)
(* FrameDecoder, SerialLine and WinLine.                                   *)
(***************************************************************************)
EXTENDS Naturals

CONSTANT MaxHandles     \* handles a process may have (files, pigpio slots)

ASSUME MaxHandlesAssumption == MaxHandles \in Nat \ {0}

VARIABLES
  keepRunning,    \* cleared by SIGINT
  receiver,       \* which receiver options and build select
  forward,        \* bytes are forwarded to a second port
  root,           \* the program has root privileges
  pc,             \* where the program is
  fd,             \* what the receiver reads from
  held,           \* handles on the port abandoned without closing them
  plugged,        \* the port exists
  dstok,          \* the port to forward to can be opened
  pending         \* bytes have arrived and were not read

options == <<receiver, forward, root>>
port == <<plugged, dstok>>
vars == <<keepRunning, options, pc, fd, held, port, pending>>

(* "unset": a handle variable that no successful open has written to.      *)
(* "stale": a handle of a port that was unplugged since.                   *)
Handles == {"none", "valid", "stale", "unset"}
Receivers == {"serial", "gpio", "ftdi", "win"}

(* The FTDI driver and Windows open a port for one handle only. *)
Exclusive == receiver \in {"ftdi", "win"}

(* An open of the port succeeds. *)
CanOpen == plugged /\ (IF Exclusive THEN held = 0 ELSE held < MaxHandles)

(* Leave the receiver with its handle closed, or without a handle. *)
Return ==
  /\ pc' = "returned" /\ fd' = "none"
  /\ UNCHANGED held

(* Leave it without closing the handle. *)
ReturnOpen ==
  /\ pc' = "returned" /\ fd' = "none"
  /\ held' = IF Exclusive /\ fd = "stale" THEN held ELSE held + 1

-----------------------------------------------------------------------------
(* The surroundings. *)
Plug ==
  /\ ~plugged
  /\ plugged' = TRUE
  /\ UNCHANGED <<keepRunning, options, pc, fd, held, dstok, pending>>

(* A handle the driver still had on the port blocks nobody any more. *)
Unplug ==
  /\ plugged
  /\ plugged' = FALSE /\ pending' = FALSE
  /\ fd' = IF fd = "valid" THEN "stale" ELSE fd
  /\ held' = IF Exclusive THEN 0 ELSE held
  /\ UNCHANGED <<keepRunning, options, pc, dstok>>

Destination ==
  /\ dstok' = ~dstok
  /\ UNCHANGED <<keepRunning, options, pc, fd, held, plugged, pending>>

Arrive ==
  /\ plugged /\ ~pending
  /\ pending' = TRUE
  /\ UNCHANGED <<keepRunning, options, pc, fd, held, port>>

intHandler ==
  /\ keepRunning
  /\ keepRunning' = FALSE
  /\ UNCHANGED <<options, pc, fd, held, port, pending>>

Surroundings == Plug \/ Unplug \/ Destination \/ Arrive \/ intHandler

-----------------------------------------------------------------------------
(* read.cpp, the receiver on Linux and macOS.                              *)

(* If only the second port cannot be opened the first one stays open. *)
SerialOpen ==
  /\ receiver = "serial" /\ pc = "open"
  /\ \/ /\ ~CanOpen
        /\ Return
     \/ /\ CanOpen /\ forward /\ ~dstok
        /\ ReturnOpen
     \/ /\ CanOpen /\ (forward => dstok)
        /\ fd' = "valid" /\ pc' = "reading"
        /\ UNCHANGED held
  /\ UNCHANGED <<keepRunning, options, port, pending>>

(* Mutant: a failed read makes the receiver return. *)
SerialReadGivesUp ==
  /\ receiver = "serial" /\ pc = "reading" /\ keepRunning
  /\ IF fd = "valid" THEN pending' = FALSE /\ UNCHANGED <<pc, fd, held>>
                     ELSE ReturnOpen /\ UNCHANGED pending
  /\ UNCHANGED <<keepRunning, options, port>>

(* A read that fails is repeated, with the same handle, for ever. *)
SerialRead ==
  /\ receiver = "serial" /\ pc = "reading" /\ keepRunning
  /\ pending' = (pending /\ fd # "valid")
  /\ UNCHANGED <<keepRunning, options, pc, fd, held, port>>

SerialStop ==
  /\ receiver = "serial" /\ pc = "reading" /\ ~keepRunning
  /\ ReturnOpen
  /\ UNCHANGED <<keepRunning, options, port, pending>>

Serial == SerialOpen \/ SerialRead \/ SerialStop

-----------------------------------------------------------------------------
(* readGPIO.cpp, the receiver on a Raspberry Pi.                           *)

(* gpioInitialise or serOpen may fail. *)
GpioOpen ==
  /\ receiver = "gpio" /\ pc = "open"
  /\ \/ /\ ~CanOpen
        /\ Return
     \/ /\ CanOpen
        /\ fd' = "valid" /\ pc' = "reading"
        /\ UNCHANGED held
  /\ UNCHANGED <<keepRunning, options, port, pending>>

GpioLoop ==
  /\ receiver = "gpio" /\ pc = "reading" /\ keepRunning
  /\ pc' = "waiting"
  /\ UNCHANGED <<keepRunning, options, fd, held, port, pending>>

(* The wait for data ends when there is some or serDataAvailable fails, it *)
(* does not look at the run flag.                                          *)
GpioRead ==
  /\ receiver = "gpio" /\ pc = "waiting"
  /\ fd = "valid" /\ pending
  /\ pc' = "reading" /\ pending' = FALSE
  /\ UNCHANGED <<keepRunning, options, fd, held, port>>

GpioReadFails ==
  /\ receiver = "gpio" /\ pc = "waiting"
  /\ pending \/ fd = "stale"
  /\ ReturnOpen
  /\ UNCHANGED <<keepRunning, options, port, pending>>

GpioStop ==
  /\ receiver = "gpio" /\ pc = "reading" /\ ~keepRunning
  /\ Return
  /\ UNCHANGED <<keepRunning, options, port, pending>>

Gpio == GpioOpen \/ GpioLoop \/ GpioRead \/ GpioReadFails \/ GpioStop

-----------------------------------------------------------------------------
(* readFTDI.cpp, the receiver that uses the FTDI driver library (default). *)

(* What openFtdiHanlde returns is not looked at: a handle that could not   *)
(* be opened is noticed when it is read.                                   *)
FtdiOpen ==
  /\ receiver = "ftdi" /\ pc = "open"
  /\ fd' = IF CanOpen THEN "valid" ELSE "unset"
  /\ pc' = "reading"
  /\ UNCHANGED <<held, keepRunning, options, port, pending>>

FtdiRead ==
  /\ receiver = "ftdi" /\ pc = "reading" /\ keepRunning /\ root
  /\ fd = "valid"
  /\ pending' = FALSE
  /\ UNCHANGED <<keepRunning, options, pc, fd, held, port>>

(* FT_Read, or FT_Write to the second device, may fail at any time, and    *)
(* FT_Read does with a handle that is not valid.  Nothing is closed.       *)
FtdiReadFails ==
  /\ receiver = "ftdi" /\ pc = "reading" /\ keepRunning /\ root
  /\ IF fd = "unset" THEN Return ELSE ReturnOpen
  /\ UNCHANGED <<keepRunning, options, port, pending>>

(* Without root privileges `running' points to a flag that is 0. *)
FtdiStop ==
  /\ receiver = "ftdi" /\ pc = "reading" /\ ~(keepRunning /\ root)
  /\ Return
  /\ UNCHANGED <<keepRunning, options, port, pending>>

Ftdi == FtdiOpen \/ FtdiRead \/ FtdiReadFails \/ FtdiStop

-----------------------------------------------------------------------------
(* readwin.cpp, the receiver on Windows.  That the port to forward to      *)
(* could not be opened is not looked at.                                   *)

(* If the port cannot be configured it stays open. *)
WinOpen ==
  /\ receiver = "win" /\ pc = "open"
  /\ \/ /\ ~CanOpen
        /\ Return
     \/ /\ CanOpen
        /\ ReturnOpen
     \/ /\ CanOpen
        /\ fd' = "valid" /\ pc' = "reading"
        /\ UNCHANGED held
  /\ UNCHANGED <<keepRunning, options, port, pending>>

(* The end of the outer loop: again, or close the port. *)
Again ==
  IF keepRunning THEN pc' = "reading" /\ UNCHANGED <<fd, held>> ELSE Return

(* WaitCommEvent blocks until something arrives, and fails if the port is  *)
(* gone; a failure is printed and otherwise ignored.                       *)
WinWait ==
  /\ receiver = "win" /\ pc = "reading"
  /\ \/ /\ fd = "valid" /\ pending
        /\ pc' = "readfile"
        /\ UNCHANGED <<fd, held>>
     \/ /\ fd = "stale"
        /\ Again
  /\ UNCHANGED <<keepRunning, options, port, pending>>

(* The inner loop reads as long as there is something to read. *)
WinReadFile ==
  /\ receiver = "win" /\ pc = "readfile"
  /\ IF fd = "valid" /\ pending
       THEN pending' = FALSE /\ UNCHANGED <<pc, fd, held>>
       ELSE Again /\ UNCHANGED pending
  /\ UNCHANGED <<keepRunning, options, port>>

Win == WinOpen \/ WinWait \/ WinReadFile

-----------------------------------------------------------------------------
(* listener.cpp, and the program as main starts it.                        *)

Init ==
  /\ keepRunning = TRUE
  /\ receiver \in Receivers
  /\ forward \in BOOLEAN
  /\ root \in BOOLEAN
  /\ pc = "listen"
  /\ fd = "none"
  /\ held = 0
  /\ plugged \in BOOLEAN
  /\ dstok \in BOOLEAN
  /\ pending = FALSE

(* Mutant: the run flag is left to the receivers. *)
StartListenUnchecked ==
  /\ pc = "listen"
  /\ pc' = "open"
  /\ UNCHANGED <<keepRunning, options, fd, held, port, pending>>

startListen ==
  /\ pc = "listen"
  /\ pc' = IF keepRunning THEN "open" ELSE "done"
  /\ UNCHANGED <<keepRunning, options, fd, held, port, pending>>

(* Mutant: a receiver that returned is not called again. *)
SleepOnce ==
  /\ pc = "returned"
  /\ pc' = "done"
  /\ UNCHANGED <<keepRunning, options, fd, held, port, pending>>

Sleep ==
  /\ pc = "returned"
  /\ pc' = "listen"
  /\ UNCHANGED <<keepRunning, options, fd, held, port, pending>>

Program == startListen \/ Sleep \/ Serial \/ Gpio \/ Ftdi \/ Win

Next == Program \/ Surroundings

Spec == Init /\ [][Next]_vars

(* The program is the only one to use its processor; nothing is assumed of *)
(* the port, the board, or the person at the keyboard.                     *)
FairSpec == Spec /\ WF_vars(Program)

-----------------------------------------------------------------------------
TypeOK ==
  /\ keepRunning \in BOOLEAN
  /\ receiver \in Receivers
  /\ forward \in BOOLEAN /\ root \in BOOLEAN
  /\ pc \in {"listen", "open", "reading", "waiting", "readfile", "returned",
             "done"}
  /\ fd \in Handles
  /\ held \in 0..MaxHandles
  /\ plugged \in BOOLEAN /\ dstok \in BOOLEAN /\ pending \in BOOLEAN
  /\ fd = "valid" => plugged

(* The run flag ends the program, wherever it is when SIGINT arrives: at   *)
(* once on Linux and with FTDI; on a Raspberry Pi and on Windows only if   *)
(* the board goes on sending or the port is unplugged, and on Windows only *)
(* if the board also pauses, so that the inner loop comes to an end.       *)
BoardGoesOn == []<>(pending \/ ~plugged)
BoardPauses == []<>(pc # "readfile")

EndsOnSigint ==
  (receiver \in {"gpio", "win"} => BoardGoesOn /\ BoardPauses)
    => (~keepRunning ~> pc = "done")

(* From what startListen cannot recover: a port that was unplugged while   *)
(* it was read on Linux or Windows; a handle that readftdi or the Windows  *)
(* receiver left behind; too many handles left behind.                     *)
Trapped ==
  \/ receiver \in {"serial", "win"} /\ fd = "stale"
  \/ IF Exclusive THEN held > 0 ELSE held = MaxHandles

(* Otherwise the retries lead back to a port that is read, once it is      *)
(* there to stay: in particular on a Raspberry Pi and with FTDI after the  *)
(* adapter was unplugged and plugged in again.                             *)
ReadsOrTrapped ==
  <>[](plugged /\ dstok /\ keepRunning /\ root)
    => <>[](fd = "valid" \/ Trapped)

(* As long as it runs the program has the port open once at most: that     *)
(* holds, without any close on an error path, because Linux without a port *)
(* to forward to has no way back to open, and the others cannot open twice.*)
OpenOnce ==
  keepRunning /\ (receiver = "serial" => ~forward) /\ receiver # "gpio"
    => held + (IF fd = "valid" THEN 1 ELSE 0) <= 1
=============================================================================
