-------------------------- MODULE MCReleaseBundle --------------------------
(* TLC instance of ReleaseBundle: contents paired with their identities.   *)
EXTENDS ReleaseBundleInvariant, TLC

CONSTANTS c1, c2, c3, i1, i2, i3

TwoContents == {c1, c2}
TwoIds == {i1, i2}
TwoIdOf == c1 :> i1 @@ c2 :> i2

ThreeContents == {c1, c2, c3}
ThreeIds == {i1, i2, i3}
ThreeIdOf == c1 :> i1 @@ c2 :> i2 @@ c3 :> i3
=============================================================================
