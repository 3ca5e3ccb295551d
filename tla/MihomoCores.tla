---------------------------- MODULE MihomoCores ----------------------------
(* The pinned Mihomo cores a candidate is validated with (mihomo_download,   *)
(* mihomo_matrix_application): each is fetched by its tag, checked against   *)
(* the digest GitHub publishes, and kept in a cache that later calls trust.  *)
(* The cache entry is two files, written one after the other; tags may share *)
(* their names once they are made safe, and upstream replaces assets.        *)
EXTENDS Naturals, Sequences

CONSTANTS Pins,       \* the stable tags of the manifest, in order; the first is the primary one
          Optional,   \* the other tags of the manifest, marked prerelease
          CachePath,  \* tag -> its name in the cache
          Releases,   \* tag -> the states GitHub may show its release in
          Corrupt,    \* assets that do not decompress
          MaxUploads, MaxFaults, MaxRuns, \* bounds: replaced assets, lost connections and interruptions, runs
          Absent

VARIABLES
  upstream,  \* tag -> its release
  published, \* history: tag and digest, for every digest GitHub published
  cache,     \* name -> executable and metadata, each a file of its own
  files,     \* output -> executable
  runs,      \* of the workflow, or of an operator's script
  script,    \* the run is a script, which accepts an asset without a digest
  plan,      \* the tags this run has still to prepare, in order
  state,     \* where the run is
  tries,     \* network attempts of the call under way
  asset, raw,\* what the API said, and what the download brought
  validated, \* history: tag -> the executable the candidate was validated with
  faults, uploads

call == <<tries, asset, raw>>
bounds == <<faults, uploads>>
coreVars == <<upstream, published, cache, files, runs, script, plan, state, call, validated, bounds>>

PinnedTags == {Pins[i] : i \in DOMAIN Pins}
Tags == PinnedTags \cup Optional
tag == Head(plan)
Stable == tag \in PinnedTags
Primary == "primary"
Tool == "tool"
Output == IF script THEN Tool ELSE IF tag = Pins[1] THEN Primary ELSE tag
NoEntry == [executable |-> Absent, metadata |-> Absent]

Digests(shown) == {<<t, shown[t].digest>> : t \in {t \in Tags : shown[t].digest # Absent}}

ASSUME CoresAssumption ==
  /\ Pins \in Seq(PinnedTags) /\ Pins # <<>>
  /\ \A i, j \in DOMAIN Pins : Pins[i] = Pins[j] => i = j
  /\ Tags \cap {Primary, Tool} = {} /\ Primary # Tool /\ Absent \notin Tags

CoresInit ==
  /\ upstream \in {shown \in [Tags -> UNION {Releases[t] : t \in Tags}] : \A t \in Tags : shown[t] \in Releases[t]}
  /\ published = Digests(upstream)
  /\ cache = [p \in {CachePath[t] : t \in Tags} |-> NoEntry]
  /\ files = [o \in Tags \cup {Primary, Tool} |-> Absent]
  /\ runs = 0 /\ script = FALSE /\ plan = <<>> /\ state = "done"
  /\ tries = 1 /\ asset = Absent /\ raw = Absent
  /\ validated = [t \in Tags |-> Absent] /\ faults = 0 /\ uploads = 0

To(next) == state' = next
Upstream == UNCHANGED <<upstream, published>>

\* An asset is replaced, or what GitHub says of it changes.
Upload ==
  /\ uploads < MaxUploads /\ uploads' = uploads + 1
  /\ \E t \in Tags : \E shown \in Releases[t] \ {upstream[t]} : upstream' = [upstream EXCEPT ![t] = shown]
  /\ published' = published \cup Digests(upstream')
  /\ UNCHANGED <<cache, files, runs, script, plan, state, call, validated, faults>>

Begin ==
  /\ state \in {"done", "failed"} /\ runs < MaxRuns /\ runs' = runs + 1
  /\ \/ script' = FALSE /\ plan' = Pins
     \/ script' = TRUE /\ plan' \in {<<t>> : t \in Tags}
  /\ To("entry")
  /\ validated' = [t \in Tags |-> Absent]
  /\ tries' = 1 /\ asset' = Absent /\ raw' = Absent
  /\ Upstream /\ UNCHANGED <<cache, files, bounds>>

RunFails == /\ To("failed") /\ Upstream /\ UNCHANGED <<cache, files, runs, script, plan, call, validated>>

---------------------------------------------------------------------------
(* download_pinned_mihomo.                                                   *)

Entry == cache[CachePath[tag]]

\* Mutant of Cached: the names of the files are taken for the tag.
CachedByName ==
  /\ Entry.executable # Absent /\ Entry.metadata # Absent
  /\ Entry.metadata.executable = Entry.executable
Cached ==
  /\ Entry.executable # Absent /\ Entry.metadata # Absent
  /\ Entry.metadata.tag = tag /\ Entry.metadata.executable = Entry.executable

ReuseVerifiedCache ==
  /\ state = "entry" /\ Cached
  /\ files' = [files EXCEPT ![Output] = Entry.executable]
  /\ To("validate")
  /\ Upstream /\ UNCHANGED <<cache, runs, script, plan, call, validated, bounds>>

Lookup ==
  /\ state = "entry" /\ ~Cached /\ To("release")
  /\ Upstream /\ UNCHANGED <<cache, files, runs, script, plan, call, validated, bounds>>

\* A lost connection is tried again, three times in all; other errors end it.
RetryNetworkCall ==
  /\ state \in {"release", "asset"} /\ faults < MaxFaults /\ faults' = faults + 1
  /\ UNCHANGED uploads
  /\ \/ tries < 3 /\ tries' = tries + 1 /\ Upstream
        /\ UNCHANGED <<cache, files, runs, script, plan, state, asset, raw, validated>>
     \/ RunFails

RequestRelease ==
  /\ state = "release" /\ UNCHANGED bounds
  /\ LET shown == upstream[tag]
     IN  IF (Stable /\ shown.prerelease) \/ shown.assets # 1
         THEN RunFails
         ELSE /\ asset' = shown /\ tries' = 1 /\ To("asset")
              /\ Upstream /\ UNCHANGED <<cache, files, runs, script, plan, raw, validated>>

\* The asset as it is upstream by now, cut short, or over the limit.
Download ==
  /\ state = "asset" /\ UNCHANGED bounds
  /\ \/ /\ raw' \in {upstream[tag].asset, "cut"} /\ To("digest")
        /\ Upstream /\ UNCHANGED <<cache, files, runs, script, plan, tries, asset, validated>>
     \/ RunFails

VerifyDigest ==
  /\ state = "digest" /\ UNCHANGED bounds
  /\ LET accepted == IF asset.digest # Absent THEN asset.digest = raw ELSE script
     IN  IF accepted /\ raw \notin Corrupt
         THEN To("write") /\ Upstream /\ UNCHANGED <<cache, files, runs, script, plan, call, validated>>
         ELSE RunFails

WriteOutput ==
  /\ state = "write" /\ files' = [files EXCEPT ![Output] = raw]
  /\ To(IF asset.digest # Absent THEN "store" ELSE "validate")
  /\ Upstream /\ UNCHANGED <<cache, runs, script, plan, call, validated, bounds>>

\* _store_verified_cache: the executable, then its metadata.
StoreExecutable ==
  /\ state = "store" /\ cache' = [cache EXCEPT ![CachePath[tag]].executable = raw]
  /\ To("metadata")
  /\ Upstream /\ UNCHANGED <<files, runs, script, plan, call, validated, bounds>>
StoreMetadata ==
  /\ state = "metadata"
  /\ cache' = [cache EXCEPT ![CachePath[tag]].metadata = [tag |-> tag, executable |-> raw]]
  /\ To("validate")
  /\ Upstream /\ UNCHANGED <<files, runs, script, plan, call, validated, bounds>>

Interrupted ==
  /\ state \notin {"done", "failed"} /\ faults < MaxFaults /\ faults' = faults + 1
  /\ RunFails /\ UNCHANGED uploads

---------------------------------------------------------------------------

\* validate_mihomo_matrix: the primary core has its own output, prepared before
\* the candidate was qualified, the others are prepared as the loop comes to
\* them. An operator's script only prepares.
Prepared ==
  /\ plan' = Tail(plan) /\ To(IF Tail(plan) = <<>> THEN "done" ELSE "entry")
  /\ tries' = 1 /\ asset' = Absent /\ raw' = Absent
  /\ Upstream /\ UNCHANGED <<cache, files, runs, script, bounds>>
PreparedOnly == state = "validate" /\ script /\ Prepared /\ UNCHANGED validated

\* validate_with_mihomo: the configuration test, on a copy with ports of its
\* own, and a start, on a copy without TUN, that has to outlive its time. The
\* core is stopped in the end, whatever came before.
ConfigTest ==
  /\ state = "validate" /\ ~script /\ UNCHANGED bounds
  /\ \/ To("smoke") /\ Upstream /\ UNCHANGED <<cache, files, runs, script, plan, call, validated>>
     \/ RunFails
StartupSmoke ==
  /\ state = "smoke"
  /\ \/ Prepared /\ validated' = [validated EXCEPT ![tag] = files[Output]]
     \/ RunFails /\ UNCHANGED bounds

CoresNext ==
  \/ Upload \/ Begin \/ ReuseVerifiedCache \/ Lookup \/ RetryNetworkCall \/ RequestRelease \/ Download
  \/ VerifyDigest \/ WriteOutput \/ StoreExecutable \/ StoreMetadata \/ Interrupted
  \/ PreparedOnly \/ ConfigTest \/ StartupSmoke

CoresSpec == CoresInit /\ [][CoresNext]_coreVars

---------------------------------------------------------------------------

\* mihomo_download.py, mihomo_matrix_application.py: a candidate is validated
\* with executables GitHub published a digest for under that very tag, however
\* they came to be in the cache, and by every pinned core before it passes.
BinariesAreVerified ==
  /\ \A t \in Tags : validated[t] # Absent => <<t, validated[t]>> \in published
  /\ state = "done" /\ runs > 0 /\ ~script => \A t \in PinnedTags : validated[t] # Absent
=============================================================================
