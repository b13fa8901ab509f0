---------------------------- MODULE AssetPipelines ----------------------------
(***************************************************************************)
(* The four pipelines that make a version's files (images, voiceover,      *)
(* video, package) and the S3 objects they share.                          *)
(*                                                                         *)
(* Every file has one key per version and scene, whoever makes it: an      *)
(* object and a metadata object, written and read one after the other.     *)
(* A pipeline first asks the store for a file of its fingerprint           *)
(* (reconcile), makes what is missing, and returns references: checksum    *)
(* and provider, which save_version puts into the version.  The pipelines  *)
(* that follow download by key.  Bytes and their checksum are one value;   *)
(* the lease is abstracted to its owner (LeaseProtocol), the step records  *)
(* to what the body has (StepPipeline).                                    *)
(***************************************************************************)
EXTENDS Naturals, FiniteSets

CONSTANTS
    Worker,
    None,
    SceneCount,    \* the storyboard's scenes: three in the code
    Photo,         \* the photos that the stock search can return
    Modes,         \* configurations: "stock", "generative", "fallback" (generative with stock behind it)
    Spoken,        \* values of audio_plan_for(video_style).voiceover_required considered
    MaxMade,       \* bound of the model: files made by image generation and by speech synthesis
    MaxFaults      \* bound of the model: failures, crashes and takeovers

\* The files that the image providers make.
ImageBytes == [by : {"cloudflare-workers-ai"}, id : 1..MaxMade] \cup [by : {"pexels"}, id : Photo]

ASSUME AssetPipelinesAssumption ==
    /\ SceneCount \in Nat \ {0}
    /\ MaxMade \in Nat /\ MaxFaults \in Nat
    /\ Modes \subseteq {"stock", "generative", "fallback"}
    /\ Spoken \subseteq BOOLEAN
    /\ None \notin Worker \cup Photo \cup ImageBytes
    /\ None \notin [fingerprint : {<<"images", "pexels">>}, checksum : ImageBytes]

Scene == 1..SceneCount
Steps == {"IMAGES", "VOICEOVER", "VIDEO", "PACKAGE"}

\* The keys below campaigns/<id>/versions/<version>/.
ImageKey(n) == <<"IMAGES", n>>
VoiceKey == <<"VOICEOVER", 0>>
VideoKey == <<"VIDEO", 0>>
PackageKey == <<"PACKAGE", 0>>
Slot == {ImageKey(n) : n \in Scene} \cup {VoiceKey, VideoKey, PackageKey}

VARIABLES
    mode,       \* settings.image_provider_mode and image_pexels_fallback_enabled
    spoken,     \* voiceover_required
    object,     \* per slot: the bytes at its key, or None
    metadata,   \* per slot: what its .metadata.json says, or None
    version,    \* the VERSION item: a reference per step, or None
    owner,      \* the worker whose save the VERSION item accepts, or None
    worker,     \* per worker: its delivery
    made,       \* number of images generated and voiceovers synthesized
    faults,
    overlapped  \* history: a delivery began before another had ended, or with a body that was replaced

vars == <<mode, spoken, object, metadata, version, owner, worker, made, faults, overlapped>>
fixed == <<mode, spoken>>
store == <<object, metadata>>

-----------------------------------------------------------------------------
\* Bytes are named by how they came about.
Generated(n) == [by |-> "cloudflare-workers-ai", id |-> n]
Stock(photo) == [by |-> "pexels", id |-> photo]
Speech(n) == [by |-> "polly", id |-> n]

\* What .metadata.json holds and reconcile compares; ids and scene numbers are
\* those of the key.
Described(fingerprint, checksum) == [fingerprint |-> fingerprint, checksum |-> checksum]

NoFiles == [s \in Steps |-> None]

\* The pipeline that runs next; what READY_FOR_REVIEW lets the API do between
\* VIDEO and PACKAGE is CampaignVersions'.
NextStep(body) ==
    CASE body["IMAGES"] = None -> "IMAGES"
      [] body["IMAGES"] # None /\ spoken /\ body["VOICEOVER"] = None -> "VOICEOVER"
      [] body["IMAGES"] # None /\ (~spoken \/ body["VOICEOVER"] # None) /\ body["VIDEO"] = None -> "VIDEO"
      [] OTHER -> "PACKAGE"

\* generative_scene_fingerprint and campaign_storyboard_fingerprint: the payloads
\* of the two image pipelines never coincide, and storyboard and brief are those
\* of the version.
ImageFingerprint(via) == <<"images", via>>

\* _synthesis_fingerprint: narration, voice and engine are those of the version.
VoiceFingerprint == <<"voice">>

\* The images are not part of the fingerprint.
VideoFingerprintMutant(body) == <<"video", None, body["VOICEOVER"]>>

\* video/pipeline.py _fingerprint: the checksums in the references.
VideoFingerprint(body) == <<"video", body["IMAGES"], body["VOICEOVER"]>>

\* package/pipeline.py _fingerprint.
PackageFingerprint(body) == <<"package", body["IMAGES"], body["VOICEOVER"], body["VIDEO"]>>

\* The first provider the worker was built with.
Primary == IF mode = "stock" THEN "pexels" ELSE "cloudflare-workers-ai"

NoImages == [n \in Scene |-> None]

\* What a video or package is built from: the bytes downloaded by key.
NoDownloads == [s \in Slot |-> None]

Idle == [pc |-> "idle", body |-> NoFiles, at |-> 1, via |-> None, images |-> NoImages,
         bytes |-> None, got |-> NoDownloads]

At(w, pc, step) == worker[w].pc = pc /\ NextStep(worker[w].body) = step
Fault == faults < MaxFaults /\ faults' = faults + 1

\* The pipeline of this body's next step, at its first request.
Begin(body) == [Idle EXCEPT !.pc = "read", !.body = body, !.via = Primary]

\* acquire returns: the body with the reference, to be saved.
Return(w, reference) ==
    worker' = [worker EXCEPT ![w] =
        [Idle EXCEPT !.pc = "save", !.body = [worker[w].body EXCEPT ![NextStep(worker[w].body)] = reference]]]

Goto(w, pc, bytes) == worker' = [worker EXCEPT ![w] = [@ EXCEPT !.pc = pc, !.bytes = bytes]]

Init ==
    /\ mode \in Modes
    /\ spoken \in Spoken
    /\ object = [s \in Slot |-> None]
    /\ metadata = [s \in Slot |-> None]
    /\ version = NoFiles
    /\ owner = None
    /\ worker = [w \in Worker |-> Idle]
    /\ made = 0
    /\ faults = 0
    /\ overlapped = FALSE

-----------------------------------------------------------------------------
(* The delivery around the pipelines.                                      *)

\* _process_raw: load_version.
Load(w) ==
    /\ worker[w].pc = "idle"
    /\ version["PACKAGE"] = None
    /\ worker' = [worker EXCEPT ![w] = [Idle EXCEPT !.pc = "loaded", !.body = version]]
    /\ UNCHANGED <<fixed, store, version, owner, made, faults, overlapped>>

\* acquire_lease: the lease is free, or another's that has run out.
Take(w) ==
    /\ worker[w].pc = "loaded"
    /\ IF owner = None THEN UNCHANGED faults ELSE Fault
    /\ owner' = w
    /\ overlapped' = (overlapped \/ worker[w].body # version \/ \E v \in Worker : worker[v].pc \notin {"idle", "loaded"})
    /\ worker' = [worker EXCEPT ![w] = Begin(worker[w].body)]
    /\ UNCHANGED <<fixed, store, version, made>>

\* save_version after a step; the next step follows in the same delivery, PACKAGE
\* in the second graph of the same pass.
Save(w) ==
    /\ worker[w].pc = "save"
    /\ owner = w
    /\ version' = worker[w].body
    /\ IF worker[w].body["PACKAGE"] # None
       THEN owner' = None /\ worker' = [worker EXCEPT ![w] = Idle]
       ELSE owner' = owner /\ worker' = [worker EXCEPT ![w] = Begin(worker[w].body)]
    /\ UNCHANGED <<fixed, store, made, faults, overlapped>>

\* LeaseLost: save_version is refused.
Lost(w) ==
    /\ worker[w].pc = "save"
    /\ owner # w
    /\ worker' = [worker EXCEPT ![w] = Idle]
    /\ UNCHANGED <<fixed, store, version, owner, made, faults, overlapped>>

\* STORAGE_UNAVAILABLE, the last provider's failure, an invalid output, a crash:
\* the delivery ends where it is and its lease with it.
Abandon(w) ==
    /\ worker[w].pc # "idle"
    /\ Fault
    /\ worker' = [worker EXCEPT ![w] = Idle]
    /\ owner' = IF owner = w THEN None ELSE owner
    /\ UNCHANGED <<fixed, store, version, made, overlapped>>

-----------------------------------------------------------------------------
(* The store: reconcile is two reads, put is two writes.                   *)

\* The first get_object; a missing object is a miss at once.
Get(w, slot, miss) ==
    IF object[slot] = None
    THEN Goto(w, miss, None)
    ELSE Goto(w, "check", object[slot])

\* The second get_object, if there is one to get, and the comparison with both.
IsHit(w, slot, fingerprint) ==
    metadata[slot] # None /\ metadata[slot] = Described(fingerprint, worker[w].bytes)

PutObject(w, slot) ==
    /\ object' = [object EXCEPT ![slot] = worker[w].bytes]
    /\ Goto(w, "describe", worker[w].bytes)

PutMetadata(slot, fingerprint, checksum) ==
    metadata' = [metadata EXCEPT ![slot] = Described(fingerprint, checksum)]

-----------------------------------------------------------------------------
(* Images.                                                                 *)

Missing(images) == {n \in Scene : images[n] = None}
First(scenes) == CHOOSE n \in scenes : \A k \in scenes : n <= k

\* The provider that _reference writes is that of the pipeline, not of the file.
ImageReferences(w, images) == [provider |-> worker[w].via, images |-> images]

\* Scene worker[w].at is settled: the next scene, or the first missing one, or
\* the end of acquire.
Settle(w, images) ==
    LET Go(pc, at) ==
          worker' = [worker EXCEPT ![w] = [@ EXCEPT !.pc = pc, !.at = at, !.images = images, !.bytes = None]]
    IN  IF worker[w].pc # "describe" /\ worker[w].at < SceneCount
        THEN Go("read", worker[w].at + 1)
        ELSE IF Missing(images) = {}
        THEN Return(w, ImageReferences(w, images))
        ELSE Go("make", First(Missing(images)))

ReadImage(w) ==
    /\ At(w, "read", "IMAGES")
    /\ LET bytes == object[ImageKey(worker[w].at)] IN
       IF bytes = None THEN Settle(w, worker[w].images) ELSE Goto(w, "check", bytes)
    /\ UNCHANGED <<fixed, store, version, owner, made, faults, overlapped>>

CheckImage(w) ==
    /\ At(w, "check", "IMAGES")
    /\ LET n == worker[w].at
           hit == IsHit(w, ImageKey(n), ImageFingerprint(worker[w].via))
       IN Settle(w, IF hit THEN [worker[w].images EXCEPT ![n] = worker[w].bytes] ELSE worker[w].images)
    /\ UNCHANGED <<fixed, store, version, owner, made, faults, overlapped>>

GenerateImage(w) ==
    /\ At(w, "make", "IMAGES")
    /\ worker[w].via = "cloudflare-workers-ai"
    /\ made < MaxMade
    /\ made' = made + 1
    /\ Goto(w, "put", Generated(made'))
    /\ UNCHANGED <<fixed, store, version, owner, faults, overlapped>>

\* The scenes that are there already are kept.
FallBackMutant(w) ==
    /\ At(w, "make", "IMAGES")
    /\ worker[w].via = "cloudflare-workers-ai"
    /\ mode = "fallback"
    /\ Fault
    /\ worker' = [worker EXCEPT ![w].via = "pexels"]
    /\ UNCHANGED <<fixed, store, version, owner, made, overlapped>>

\* A failure that is approved for fallback: the stock pipeline begins anew.
FallBack(w) ==
    /\ At(w, "make", "IMAGES")
    /\ worker[w].via = "cloudflare-workers-ai"
    /\ mode = "fallback"
    /\ Fault
    /\ worker' = [worker EXCEPT ![w] = [Begin(worker[w].body) EXCEPT !.via = "pexels"]]
    /\ UNCHANGED <<fixed, store, version, owner, made, overlapped>>

\* Photos are excluded only if this call has chosen them.
UsedMutant(w) == {}

\* used_ids.
Used(w) == {worker[w].images[n].id : n \in Scene \ Missing(worker[w].images)}

\* rank_candidates: any photo that is not used can come first.
ChoosePhoto(w) ==
    /\ At(w, "make", "IMAGES")
    /\ worker[w].via = "pexels"
    /\ \E photo \in Photo \ Used(w) : Goto(w, "put", Stock(photo))
    /\ UNCHANGED <<fixed, store, version, owner, made, faults, overlapped>>

\* The file of a scene goes under the key of the next one.
PutImageMutant(w) ==
    /\ At(w, "put", "IMAGES")
    /\ PutObject(w, ImageKey((worker[w].at % SceneCount) + 1))
    /\ UNCHANGED <<fixed, metadata, version, owner, made, faults, overlapped>>

PutImage(w) ==
    /\ At(w, "put", "IMAGES")
    /\ PutObject(w, ImageKey(worker[w].at))
    /\ UNCHANGED <<fixed, metadata, version, owner, made, faults, overlapped>>

DescribeImage(w) ==
    /\ At(w, "describe", "IMAGES")
    /\ PutMetadata(ImageKey(worker[w].at), ImageFingerprint(worker[w].via), worker[w].bytes)
    /\ Settle(w, [worker[w].images EXCEPT ![worker[w].at] = worker[w].bytes])
    /\ UNCHANGED <<fixed, object, version, owner, made, faults, overlapped>>

-----------------------------------------------------------------------------
(* Voiceover.                                                              *)

ReadVoice(w) ==
    /\ At(w, "read", "VOICEOVER")
    /\ Get(w, VoiceKey, "make")
    /\ UNCHANGED <<fixed, store, version, owner, made, faults, overlapped>>

CheckVoice(w) ==
    /\ At(w, "check", "VOICEOVER")
    /\ IF IsHit(w, VoiceKey, VoiceFingerprint) THEN Return(w, worker[w].bytes) ELSE Goto(w, "make", None)
    /\ UNCHANGED <<fixed, store, version, owner, made, faults, overlapped>>

\* Synthesis, loudness, tempo: the bytes that are stored are the last encode.
Synthesize(w) ==
    /\ At(w, "make", "VOICEOVER")
    /\ made < MaxMade
    /\ made' = made + 1
    /\ Goto(w, "put", Speech(made'))
    /\ UNCHANGED <<fixed, store, version, owner, faults, overlapped>>

PutVoice(w) ==
    /\ At(w, "put", "VOICEOVER")
    /\ PutObject(w, VoiceKey)
    /\ UNCHANGED <<fixed, metadata, version, owner, made, faults, overlapped>>

DescribeVoice(w) ==
    /\ At(w, "describe", "VOICEOVER")
    /\ PutMetadata(VoiceKey, VoiceFingerprint, worker[w].bytes)
    /\ Return(w, worker[w].bytes)
    /\ UNCHANGED <<fixed, object, version, owner, made, faults, overlapped>>

-----------------------------------------------------------------------------
(* Video.                                                                  *)

ReadVideo(w) ==
    /\ At(w, "read", "VIDEO")
    /\ Get(w, VideoKey, "download")
    /\ UNCHANGED <<fixed, store, version, owner, made, faults, overlapped>>

CheckVideo(w) ==
    /\ At(w, "check", "VIDEO")
    /\ IF IsHit(w, VideoKey, VideoFingerprint(worker[w].body))
       THEN Return(w, worker[w].bytes)
       ELSE Goto(w, "download", None)
    /\ UNCHANGED <<fixed, store, version, owner, made, faults, overlapped>>

\* _image_key, _audio_key and _video_key of the references.
Inputs(step) ==
    {ImageKey(n) : n \in Scene} \cup (IF spoken THEN {VoiceKey} ELSE {}) \cup (IF step = "PACKAGE" THEN {VideoKey} ELSE {})

\* The order of the downloads: images, voice, video.
Before(s, t) ==
    \/ s[1] = "IMAGES" /\ t[1] = "IMAGES" /\ s[2] < t[2]
    \/ s[1] = "IMAGES" /\ t[1] # "IMAGES"
    \/ s[1] = "VOICEOVER" /\ t[1] = "VIDEO"

Pending(w) == {s \in Inputs(NextStep(worker[w].body)) : worker[w].got[s] = None}

\* resolve_scene_artifacts: no two scenes refer to the same file.
Resolvable(body) ==
    \A n, k \in Scene : body["IMAGES"].images[n] = body["IMAGES"].images[k] => n = k

Renderable(w) == NextStep(worker[w].body) = "VIDEO" => Resolvable(worker[w].body)

\* ARTIFACT_VALIDATION_FAILED ends the delivery, whenever it is tried.
RefuseVideo(w) ==
    /\ worker[w].pc = "download"
    /\ ~Renderable(w)
    /\ worker' = [worker EXCEPT ![w] = Idle]
    /\ owner' = IF owner = w THEN None ELSE owner
    /\ UNCHANGED <<fixed, store, version, made, faults, overlapped>>

\* _download: whatever the key holds now.
Download(w) ==
    /\ worker[w].pc = "download"
    /\ Renderable(w)
    /\ \E s \in Pending(w) :
          /\ \A t \in Pending(w) \ {s} : Before(s, t)
          /\ object[s] # None
          /\ worker' = [worker EXCEPT ![w] = [@ EXCEPT !.got = [worker[w].got EXCEPT ![s] = object[s]]]]
    /\ UNCHANGED <<fixed, store, version, owner, made, faults, overlapped>>

Downloaded(w) == worker[w].pc = "download" /\ Pending(w) = {}

\* "asked" is history: the references that the call was made with.
Render(w) ==
    /\ Downloaded(w)
    /\ NextStep(worker[w].body) = "VIDEO"
    /\ Goto(w, "put", [by |-> "renderer", of |-> worker[w].got,
                       asked |-> <<worker[w].body["IMAGES"], worker[w].body["VOICEOVER"]>>])
    /\ UNCHANGED <<fixed, store, version, owner, made, faults, overlapped>>

PutVideo(w) ==
    /\ At(w, "put", "VIDEO")
    /\ PutObject(w, VideoKey)
    /\ UNCHANGED <<fixed, metadata, version, owner, made, faults, overlapped>>

DescribeVideo(w) ==
    /\ At(w, "describe", "VIDEO")
    /\ PutMetadata(VideoKey, VideoFingerprint(worker[w].body), worker[w].bytes)
    /\ Return(w, worker[w].bytes)
    /\ UNCHANGED <<fixed, object, version, owner, made, faults, overlapped>>

-----------------------------------------------------------------------------
(* Package.                                                                *)

ReadPackage(w) ==
    /\ At(w, "read", "PACKAGE")
    /\ Get(w, PackageKey, "download")
    /\ UNCHANGED <<fixed, store, version, owner, made, faults, overlapped>>

CheckPackage(w) ==
    /\ At(w, "check", "PACKAGE")
    /\ IF IsHit(w, PackageKey, PackageFingerprint(worker[w].body))
       THEN Return(w, worker[w].bytes)
       ELSE Goto(w, "download", None)
    /\ UNCHANGED <<fixed, store, version, owner, made, faults, overlapped>>

\* build_package: the files, and a manifest made of the references.
Build(w) ==
    /\ Downloaded(w)
    /\ NextStep(worker[w].body) = "PACKAGE"
    /\ Goto(w, "put", [by |-> "builder", of |-> worker[w].got, manifest |-> worker[w].body])
    /\ UNCHANGED <<fixed, store, version, owner, made, faults, overlapped>>

PutPackage(w) ==
    /\ At(w, "put", "PACKAGE")
    /\ PutObject(w, PackageKey)
    /\ UNCHANGED <<fixed, metadata, version, owner, made, faults, overlapped>>

DescribePackage(w) ==
    /\ At(w, "describe", "PACKAGE")
    /\ PutMetadata(PackageKey, PackageFingerprint(worker[w].body), worker[w].bytes)
    /\ Return(w, worker[w].bytes)
    /\ UNCHANGED <<fixed, object, version, owner, made, faults, overlapped>>

-----------------------------------------------------------------------------
Images(w) ==
    \/ ReadImage(w) \/ CheckImage(w) \/ GenerateImage(w) \/ FallBack(w) \/ ChoosePhoto(w)
    \/ PutImage(w) \/ DescribeImage(w)
Voice(w) == ReadVoice(w) \/ CheckVoice(w) \/ Synthesize(w) \/ PutVoice(w) \/ DescribeVoice(w)
Video(w) == ReadVideo(w) \/ CheckVideo(w) \/ RefuseVideo(w) \/ Render(w) \/ PutVideo(w) \/ DescribeVideo(w)
Package(w) == ReadPackage(w) \/ CheckPackage(w) \/ Build(w) \/ PutPackage(w) \/ DescribePackage(w)

Next ==
    \E w \in Worker :
        \/ Load(w) \/ Take(w) \/ Save(w) \/ Lost(w) \/ Abandon(w)
        \/ Images(w) \/ Voice(w) \/ Video(w) \/ Download(w) \/ Package(w)

Spec == Init /\ [][Next]_vars
-----------------------------------------------------------------------------
(* Properties.                                                             *)

\* The types of the variables; bytes and references are those of the step.
TypeOK ==
    /\ mode \in Modes
    /\ spoken \in Spoken
    /\ DOMAIN object = Slot
    /\ DOMAIN metadata = Slot
    /\ \A n \in Scene : object[ImageKey(n)] \in ImageBytes \cup {None}
    /\ \A s \in Slot : metadata[s] # None => DOMAIN metadata[s] = {"fingerprint", "checksum"}
    /\ DOMAIN version = Steps
    /\ owner \in Worker \cup {None}
    /\ made \in 0..MaxMade
    /\ faults \in 0..MaxFaults
    /\ overlapped \in BOOLEAN
    /\ \A w \in Worker :
          /\ worker[w].pc \in {"idle", "loaded", "read", "check", "make", "put", "describe", "download", "save"}
          /\ worker[w].at \in Scene
          /\ worker[w].via \in {None, "pexels", "cloudflare-workers-ai"}
          /\ worker[w].images \in [Scene -> ImageBytes \cup {None}]

Pictures == version["IMAGES"].images

\* generative_pipeline.py: "the returned list can never mix providers", and the
\* provider that a reference names, whose attribution the client shows, made
\* the bytes of its checksum: whatever two deliveries, an upload that was cut
\* off between object and metadata, and the fallback have left under the keys.
ProviderIsTrue ==
    version["IMAGES"] # None => \A n \in Scene : Pictures[n].by = version["IMAGES"].provider

\* "distinct photos": as long as deliveries do not overlap, no stock photo is
\* used for two scenes, also when some were found in the store and others are
\* chosen anew.
PhotosAreDistinct ==
    version["IMAGES"] # None /\ version["IMAGES"].provider = "pexels" /\ ~overlapped =>
        \A n, k \in Scene : Pictures[n] = Pictures[k] => n = k

\* A video is reused only for the references it was rendered for: when another
\* delivery has replaced the images, the video of the old ones is not found.
VideoIsOfItsReferences ==
    version["VIDEO"] # None => version["VIDEO"].asked = <<version["IMAGES"], version["VOICEOVER"]>>

\* The reference of each key that the version's references name.
Referenced ==
    [s \in {k \in Slot : version[k[1]] # None} |-> IF s[1] = "IMAGES" THEN Pictures[s[2]] ELSE version[s[1]]]

\* docs/contracts/artifact-and-error-schemas.md: "`checksum_sha256` is over
\* stored bytes."
ChecksumIsOverStoredBytes == \A s \in DOMAIN Referenced : object[s] = Referenced[s]

\* As long as deliveries do not overlap, the files at the keys are those of the
\* references, the video shows them and the package holds them with a manifest
\* that describes them: failures, crashes in the middle of an upload, fallback
\* and redelivery included.
FilesAreTheReferences ==
    ~overlapped =>
        /\ ChecksumIsOverStoredBytes
        /\ version["VIDEO"] # None =>
              \A s \in Inputs("VIDEO") : version["VIDEO"].of[s] = Referenced[s]
        /\ version["PACKAGE"] # None =>
              /\ \A s \in Inputs("PACKAGE") : version["PACKAGE"].of[s] = Referenced[s]
              /\ version["PACKAGE"].manifest = [version EXCEPT !["PACKAGE"] = None]
=============================================================================
