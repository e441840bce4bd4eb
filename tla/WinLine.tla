------------------------------ MODULE WinLine -------------------------------
(***************************************************************************)
(* The frame decoder behind the Windows receiver (readwin.cpp).            *)
(*                                                                         *)
(* Its inner loop reads single bytes until ReadFile times out or fails     *)
(* with no byte read, and hands ReadData to putReadData before it looks at *)
(* NoBytesRead: whenever the line pauses the byte read last is handed over *)
(* again, once for every event that WaitCommEvent reports.  No byte is     *)
(* lost here (MaxLoss = 0).                                                *)
(***************************************************************************)
EXTENDS SerialLine

CONSTANT MaxRepeats     \* bound: repeats since the last byte read

VARIABLES
  ReadData,     \* the byte read last; not initialised
  repeats,      \* how often it was handed over again
  padded        \* a data byte was repeated since the last address word

winVars == <<vars, ReadData, repeats, padded>>

-----------------------------------------------------------------------------
WInit ==
  /\ LInit
  /\ ReadData \in Bytes
  /\ repeats = 0
  /\ padded = FALSE

ReadFile ==
  /\ Deliver
  /\ ReadData' = cur[pos + 1]
  /\ repeats' = 0
  /\ padded' = (padded /\ pos # 0)

(* The line pauses: NoBytesRead = 0. *)
ReadNothing ==
  /\ repeats < MaxRepeats
  /\ PutReadData(ReadData)
  /\ repeats' = repeats + 1
  /\ padded' = (padded \/ ~IsAddressWord(ReadData))
  /\ UNCHANGED <<lineVars, ReadData>>

WNext ==
  \/ ReadFile \/ ReadNothing
  \/ NextFrame /\ UNCHANGED <<ReadData, repeats, padded>>

WSpec == WInit /\ [][WNext]_winVars

-----------------------------------------------------------------------------
WTypeOK ==
  /\ TypeOK
  /\ cur \in Frames
  /\ pos \in 0..Len(cur)
  /\ origin \in Frames \cup {<<>>}
  /\ ReadData \in Bytes
  /\ repeats \in 0..MaxRepeats
  /\ padded \in BOOLEAN

(* A frame of a handled channel is handed over as it was sent if the line  *)
(* did not pause after one of its data bytes, and not at all if it did:    *)
(* repeated bytes never turn it into another one, whatever channel they    *)
(* belong to.  A repeated address word does no harm, and a pause alone     *)
(* never makes putReadData hand over anything.                             *)
HandsOverWhole ==
  origin # <<>>
    => decoded' = IF ReadFile /\ pos = 0 /\ Handled(origin) /\ ~padded
                    THEN origin ELSE <<>>
WholeOrNothing == [][HandsOverWhole]_winVars
=============================================================================
