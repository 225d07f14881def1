------------------------------ MODULE Settings ------------------------------
(***************************************************************************)
(* The HTTP/3 settings of a connection (H3Protocol, riven/protocol_h3/     *)
(* h3_protocol.py): what Riven sends and which settings of the other side  *)
(* it refuses.  The other side is anyone, or Riven itself.  Only the       *)
(* settings that WebTransport depends on are there.  A definition whose    *)
(* name begins with "Broken" is a mutation of the one after it and no part *)
(* of the model.                                                           *)
(***************************************************************************)
EXTENDS Naturals

CONSTANT MaxValue     \* bound: the greatest value of a setting

ASSUME SettingsAssumption == MaxValue \in Nat \ {0}

VARIABLES
    webtransport,     \* config.webtransport of the side that sends
    peer,             \* what that side is: "riven" or "any"
    parameter,        \* the transport parameter max_datagram_frame_size came
    settings,         \* the settings that came: a function on those present
    verdict           \* of _validate_settings

settingsVars == <<webtransport, peer, parameter, settings, verdict>>

Connect  == "ENABLE_CONNECT_PROTOCOL"
Datagram == "H3_DATAGRAM"
WT       == "WT_ENABLED"
Name     == {Connect, Datagram, WT}

SettingsTypeOK ==
    /\ webtransport \in BOOLEAN /\ peer \in {"riven", "any"} /\ parameter \in BOOLEAN
    /\ DOMAIN settings \subseteq Name
    /\ \A name \in DOMAIN settings : settings[name] \in 0..MaxValue
    /\ verdict \in {"none", "accepted", "refused"}

SettingsInit ==
    /\ webtransport \in BOOLEAN /\ peer \in {"riven", "any"} /\ parameter = FALSE
    /\ settings = [name \in {} |-> 0] /\ verdict = "none"

-----------------------------------------------------------------------------
IsOne(name) == name \in DOMAIN settings /\ settings[name] = 1

(* What _get_local_settings gives.  The QUIC configuration that startup()    *)
(* makes leaves max_datagram_frame_size at its default, None, so the         *)
(* transport parameter is not sent.                                          *)
LocalSettings ==
    /\ peer = "riven" /\ DOMAIN settings = {} /\ verdict = "none"
    /\ settings' = [name \in IF webtransport THEN Name ELSE {Connect} |-> 1]
    /\ UNCHANGED <<webtransport, peer, parameter, verdict>>

OtherSettings ==
    /\ peer = "any" /\ DOMAIN settings = {} /\ verdict = "none"
    /\ parameter' \in BOOLEAN
    /\ \E present \in SUBSET Name : settings' \in [present -> 0..MaxValue]
    /\ UNCHANGED <<webtransport, peer, verdict>>

BrokenRefused ==
    \/ \E name \in DOMAIN settings : settings[name] \notin {0, 1}
    \/ IsOne(Datagram) /\ ~parameter
    \/ IsOne(WT) /\ ~IsOne(Datagram)
    \/ IsOne(WT) /\ IsOne(Datagram) /\ Connect \notin DOMAIN settings

BrokenRefusedParameter ==
    \/ \E name \in DOMAIN settings : settings[name] \notin {0, 1}
    \/ IsOne(WT) /\ ~IsOne(Datagram)
    \/ IsOne(WT) /\ IsOne(Datagram) /\ ~IsOne(Connect)

(* A value that is not Boolean, or a feature without what it needs. *)
Refused ==
    \/ \E name \in DOMAIN settings : settings[name] \notin {0, 1}
    \/ IsOne(Datagram) /\ ~parameter
    \/ IsOne(WT) /\ ~IsOne(Datagram)
    \/ IsOne(WT) /\ IsOne(Datagram) /\ ~IsOne(Connect)

ValidateSettings ==
    /\ verdict = "none" /\ (peer = "riven" => DOMAIN settings # {})
    /\ verdict' = IF Refused THEN "refused" ELSE "accepted"
    /\ UNCHANGED <<webtransport, peer, parameter, settings>>

SettingsNext == LocalSettings \/ OtherSettings \/ ValidateSettings

SettingsSpec == SettingsInit /\ [][SettingsNext]_settingsVars

-----------------------------------------------------------------------------
(* What each feature needs: DATAGRAM frames, and the two that a session uses.*)
Requires == {<<WT, Datagram>>, <<WT, Connect>>, <<Datagram, "parameter">>}

Enabled == {name \in DOMAIN settings : settings[name] = 1}
           \cup IF parameter THEN {"parameter"} ELSE {}

(* A set of settings is accepted if and only if its values are Boolean and   *)
(* what is enabled is closed under Requires: there is no combination, in no  *)
(* order of the checks, that lets a half-capable peer in or keeps a capable  *)
(* one out (h3_protocol.py:107-137).                                         *)
AcceptsUsable ==
    verdict # "none" =>
        (verdict = "accepted" <=>
            /\ \A name \in DOMAIN settings : settings[name] <= 1
            /\ \A need \in Requires : need[1] \in Enabled => need[2] \in Enabled)

(* Of its own two sets of settings, Riven accepts the one without            *)
(* WebTransport.  It refuses the one with it, for its QUIC connections do    *)
(* not send the parameter that it demands for H3_DATAGRAM                    *)
(* (h3_protocol.py:99-104, 120-124, server.py:123-126).                      *)
OwnSettingsStand ==
    peer = "riven" /\ verdict # "none" => (verdict = "accepted" <=> ~webtransport)

-----------------------------------------------------------------------------
(* The inductive invariant: Riven's own settings are what they are.          *)
Own == peer = "riven" =>
          /\ ~parameter
          /\ DOMAIN settings \in {{}, IF webtransport THEN Name ELSE {Connect}}
          /\ \A name \in DOMAIN settings : settings[name] = 1
          /\ verdict # "none" => DOMAIN settings # {}

SettingsIInv == SettingsTypeOK /\ Own /\ AcceptsUsable
=============================================================================
