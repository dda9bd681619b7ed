----------------------------- MODULE MCMapPubSub -----------------------------
(* Small instances of MapPubSub.                                            *)
EXTENDS MapPubSub, TLC

CONSTANTS t1, c1, c2, s1, s2, s3, w1, w2

\* One map, two subscriptions that follow it.
OneMapSession == s1 :> t1 @@ s2 :> t1
OneMapStorage == s1 :> c1 @@ s2 :> c1
OneMapStart == s1 :> "0" @@ s2 :> "0"
OneMapTwoWriters == c1 :> {w1, w2}

\* Two maps with a writer each that share the queue and the publisher; s3
\* waives its snapshot.
TwoMapsSession == s1 :> t1 @@ s3 :> t1
TwoMapsStorage == s1 :> c1 @@ s3 :> c2
TwoMapsStart == s1 :> "0" @@ s3 :> NoSnapshot
TwoMapsOneWriterEach == c1 :> {w1} @@ c2 :> {w2}
=============================================================================
