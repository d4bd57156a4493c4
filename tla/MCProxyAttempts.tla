-------------------------- MODULE MCProxyAttempts ---------------------------
(***************************************************************************)
(* Two channels, one of them with two keys, and two retries: enough for a  *)
(* failed stream followed by a failed answer, and for a channel left to    *)
(* cool while the other is spent.                                          *)
(***************************************************************************)
EXTENDS ProxyAttempts, TLC

CONSTANTS c1, c2, k1, k2

MCChannels == {c1, c2}
MCKeys == {k1, k2}
MCKeysOf == (c1 :> {k1, k2}) @@ (c2 :> {})
=============================================================================
