---------------------------- MODULE MCH3Protocol ----------------------------
(***************************************************************************)
(* Model-checking instance of Capsules and Settings, the two parts of      *)
(* H3Protocol.  They share nothing, so only one of them moves in a         *)
(* behaviour.                                                              *)
(*                                                                         *)
(* There are good and bad capsules of every kind.  The payloads are        *)
(* numbers that are types, too, so that a parser that loses its place      *)
(* would read them as such.                                                *)
(***************************************************************************)
EXTENDS Capsules, Settings

VARIABLE side

MCPossible == {<<9, 0>>, <<9, 2, 7, 1>>,             \* of an unknown type
               <<1, 4, 3, 1, 7, 1>>,                 \* WT_CLOSE_SESSION
               <<2, 0>>, <<2, 1, 2>>,                \* WT_DRAIN_SESSION
               <<3, 1, 5>>, <<4, 1, 6>>, <<5, 0>>,   \* numbers of streams
               <<7, 1, 6>>, <<8, 2, 1, 1>>}          \* amounts of data

MCInit == /\ Init /\ SettingsInit
          /\ \/ side = "capsules" /\ peer = "any" /\ ~webtransport
             \/ side = "settings"

CapsulesMove == side = "capsules" /\ Next /\ UNCHANGED <<settingsVars, side>>
SettingsMove == side = "settings" /\ SettingsNext /\ UNCHANGED <<vars, side>>

MCNext == CapsulesMove \/ SettingsMove

MCSpec == MCInit /\ [][MCNext]_<<vars, settingsVars, side>>
=============================================================================
