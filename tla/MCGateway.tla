----------------------------- MODULE MCGateway -----------------------------
(* Instances of Gateway for TLC.                                           *)
EXTENDS Gateway, TLC

CONSTANTS i1, i2

Transcript(i, n, s, x) == [intent |-> i, nonce |-> n, signed |-> s, text |-> x]

(* One signed transcript for each intent.                                  *)
OneTranscript == {Transcript(i, i, TRUE, "a") : i \in Intents}

(* Two signed transcripts for each intent.                                 *)
TwoTranscripts == {Transcript(i, i, TRUE, x) : i \in Intents, x \in {"a", "b"}}

(* A signed transcript for the first intent, and an unsigned one that      *)
(* parses alike.                                                           *)
TwinTranscripts == {Transcript(i1, i1, s, "a") : s \in BOOLEAN}

(* Two signed transcripts for each intent, and an unsigned one for the     *)
(* first.                                                                  *)
SomeTranscripts == TwoTranscripts \union {Transcript(i1, i1, FALSE, "a")}

(* Those, and one for the first intent with the nonce of the second.       *)
MixedTranscripts == SomeTranscripts \union {Transcript(i1, i2, TRUE, "a")}

Post(endpoint, t, rest) ==
  [endpoint |-> endpoint, intent |-> i1, transcript |-> t, rest |-> rest]

(* With a key: each transcript to /confirm, and the signed ones to         *)
(* /authorize.                                                             *)
TextPosts ==
  {Post("confirm", t, None) : t \in Transcripts}
  \union {Post("authorize", t, None) : t \in {t \in Transcripts : t.signed}}

(* Those, and payments with another rest of the body.                      *)
RestPosts ==
  TextPosts \union {Post("authorize", t, x) : t \in {t \in Transcripts : t.signed}, x \in Rests}

AllAllowed == [i \in Intents |-> "ALLOW"]

(* A bespoke hook that denies the second order.                            *)
SecondDenied == [i \in Intents |-> IF i = i2 THEN "DENY" ELSE "ALLOW"]

SlotsAlike == Permutations(Slots)
=============================================================================
