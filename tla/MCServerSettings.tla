-------------------------- MODULE MCServerSettings --------------------------
(* The settings of a SpireServer CR that its controller validates, TTLs    *)
(* and federation.  Neither looks at the other, so each is explored with   *)
(* the other left at its start.                                            *)
(*                                                                         *)
(* TTLs are six-bit durations with a cap of four units: six times the cap  *)
(* still fits, six times the largest TTL does not.  Federation comes in    *)
(* every profile, with and without an external certificate, in both        *)
(* settings of managedRoute, and with lists of peers that are good, that   *)
(* repeat a domain and that name the own domain.                           *)
EXTENDS TTLValidation, Federation

SmallTTLs == -1..31

Endpoint(profile, web, tos, secret) ==
    [profile |-> profile, web |-> web, tos |-> tos, secret |-> secret,
     refreshHint |-> 60, peers |-> <<>>, managedRoute |-> TRUE]

Spiffe == Endpoint("https_spiffe", "none", FALSE, None)
Cert(secret) == Endpoint("https_web", "cert", FALSE, secret)
Acme(tos) == Endpoint("https_web", "acme", tos, None)

WebPeer(domain) ==
    [domain |-> domain, profile |-> "https_web", https |-> TRUE, spiffeId |-> "none"]
SpiffePeer(domain) ==
    [domain |-> domain, profile |-> "https_spiffe", https |-> TRUE, spiffeId |-> "spiffe"]
With(f, peers) == [f EXCEPT !.peers = peers]
Unmanaged(f) == [f EXCEPT !.managedRoute = FALSE]

Good == <<WebPeer("a"), SpiffePeer("b")>>
Repeated == <<WebPeer("a"), SpiffePeer("a")>>
Own == <<WebPeer("b"), WebPeer("own")>>

AllFederations ==
    {Spiffe, Unmanaged(Spiffe), With(Spiffe, Good), With(Spiffe, Repeated), With(Spiffe, Own),
     Endpoint("https_spiffe", "cert", FALSE, "s1"),
     Cert(None), Cert("s1"), Cert("s2"), Unmanaged(Cert("s2")), Acme(TRUE), Acme(FALSE)}

FirstTTLs == [ca |-> 1, x509 |-> 1, jwt |-> 1]

SettingsInit == Init /\ TTLInit /\ (createOnly => config = FirstTTLs)

SettingsNext ==
    \/ TTLNext /\ lives = 0 /\ ~createOnly /\ ~queued /\ UNCHANGED vars
    \/ Next /\ config = FirstTTLs /\ result = NotValidated /\ UNCHANGED ttlVars

SettingsSpec == SettingsInit /\ [][SettingsNext]_<<vars, ttlVars>>
=============================================================================
