--------------------------- MODULE FleetVersions ---------------------------
(***************************************************************************)
(* What a ReleaseChannel concludes from the images its instances report:   *)
(* internal/controller/releasechannel_version.go.                          *)
(*                                                                         *)
(* An image reference is a positive number; the order of the numbers is    *)
(* the lexicographic order of the references, which is all sort.Strings    *)
(* uses.  Version[i] is the MAJOR.MINOR.PATCH core found in the tag of     *)
(* image i, as a number, and 0 when there is none ("latest", a digest).    *)
(* A fleet is a set of instances S and a function `resolved' from          *)
(* instances to images, NoImage for an instance that reports none.         *)
(***************************************************************************)
EXTENDS Integers, FiniteSets, Folds

CONSTANTS
    Images,     \* the image references that can appear
    Version     \* the orderable version of each image, 0 when it has none

ASSUME ImagesAssumption == Images \subseteq Nat \ {0}
ASSUME VersionAssumption == Version \in [Images -> Nat]

NoImage == 0
MaybeImage == Images \cup {NoImage}

\* imageTag, imageVersion: does the reference carry a version to order on?
HasVersion(i) == i \in Images /\ Version[i] # 0

\* compareImageVersions(current, target) = (-1, true)
OlderThan(target, current) ==
    /\ HasVersion(target)
    /\ HasVersion(current)
    /\ Version[target] < Version[current]

\* deployedImages: the distinct images the instances of S report running
DeployedImages(S, resolved) == {resolved[u] : u \in S} \ {NoImage}

\* rollbackBaseline: the one image the whole fleet runs, or none
RollbackBaseline(S, resolved) ==
    LET images == DeployedImages(S, resolved)
    IN  IF \E i \in images : images = {i}
        THEN CHOOSE i \in images : TRUE
        ELSE NoImage

CountOn(i, S, resolved) == Cardinality({u \in S : resolved[u] = i})

\* Mutant of Prefer: a tie goes to the image that sorts last, whatever its version.
PreferLast(best, i, S, resolved) ==
    IF best = NoImage \/ CountOn(i, S, resolved) >= CountOn(best, S, resolved)
    THEN i
    ELSE best

\* One round of the loop of fleetImage: does i displace the best so far?
Prefer(best, i, S, resolved) ==
    IF \/ best = NoImage
       \/ CountOn(i, S, resolved) > CountOn(best, S, resolved)
       \/ /\ CountOn(i, S, resolved) = CountOn(best, S, resolved)
          /\ OlderThan(best, i)
    THEN i
    ELSE best

\* fleetImage: fold that round over the deployed images in sorted order
FleetImage(S, resolved) ==
    MapThenFoldSet(LAMBDA i, best : Prefer(best, i, S, resolved),
                   NoImage,
                   LAMBDA i : i,
                   LAMBDA images : CHOOSE m \in images : \A i \in images : i <= m,
                   DeployedImages(S, resolved))

\* Mutant of DowngradeFrom: one instance with something newer is enough.
DowngradeFromAny(target, allowDowngrade, S, resolved) ==
    ~allowDowngrade /\ \E u \in S : OlderThan(target, resolved[u])

\* downgradeFrom: is this target older than what most of the fleet runs?
DowngradeFrom(target, allowDowngrade, S, resolved) ==
    ~allowDowngrade /\ OlderThan(target, FleetImage(S, resolved))
=============================================================================
