------------------------- MODULE AssetPipelinesProofs -------------------------
(***************************************************************************)
(* For any number of workers, scenes, photos and faults: a reference to    *)
(* images names the provider that made them, and a video that is reused    *)
(* was rendered for the references it is reused for; and as long as        *)
(* deliveries do not overlap, photos are distinct and the files are those  *)
(* of the references.                                                      *)
(***************************************************************************)
EXTENDS AssetPipelines, TLAPS, WellFoundedInduction

\* Files follow one another, images are by the provider that is named, and a
\* video is of the images and the voice beside it.
Sound(body) ==
    /\ DOMAIN body = Steps
    /\ body["IMAGES"] = None \/ (spoken /\ body["VOICEOVER"] = None) => body["VIDEO"] = None
    /\ body["IMAGES"] # None => \A n \in Scene : body["IMAGES"].images[n].by = body["IMAGES"].provider
    /\ body["VIDEO"] # None => body["VIDEO"].asked = <<body["IMAGES"], body["VOICEOVER"]>>

Fields == {"pc", "body", "at", "via", "images", "bytes", "got"}
Making == {"read", "check", "make", "put", "describe"}
Places == {"idle", "loaded", "download", "save"} \cup Making
Via == {None, "pexels", "cloudflare-workers-ai"}

\* What is true of a delivery at each place.
Fine(s) ==
    /\ DOMAIN s = Fields
    /\ Sound(s.body)
    /\ s.pc \in Places /\ s.at \in Scene /\ s.via \in Via
    /\ s.images \in [Scene -> ImageBytes \cup {None}]
    /\ s.pc \in {"check", "put", "describe"} /\ NextStep(s.body) = "IMAGES" => s.bytes \in ImageBytes
    /\ s.pc \in Making /\ NextStep(s.body) = "IMAGES" =>
          \A n \in Scene : s.images[n] # None => s.images[n].by = s.via
    /\ s.pc \in {"put", "describe"} /\ NextStep(s.body) = "IMAGES" => s.bytes.by = s.via
    /\ s.pc \in {"put", "describe"} /\ NextStep(s.body) = "VIDEO" =>
          s.bytes.asked = <<s.body["IMAGES"], s.body["VOICEOVER"]>>

Workers == DOMAIN worker = Worker /\ \A w \in Worker : Fine(worker[w])

\* A file under a fingerprint is what the fingerprint says.
Labelled ==
    /\ DOMAIN metadata = Slot
    /\ \A slot \in Slot : metadata[slot] # None =>
          /\ DOMAIN metadata[slot] = {"fingerprint", "checksum"}
          /\ metadata[slot].fingerprint[1] = "images" => metadata[slot].checksum.by = metadata[slot].fingerprint[2]
          /\ metadata[slot].fingerprint[1] = "video" =>
                metadata[slot].checksum.asked = <<metadata[slot].fingerprint[2], metadata[slot].fingerprint[3]>>

Objects == DOMAIN object = Slot /\ \A n \in Scene : object[ImageKey(n)] \in ImageBytes \cup {None}

IInv == spoken \in Spoken /\ Sound(version) /\ Labelled /\ Objects /\ Workers

\* The variables that no other part of the invariant speaks of.
Rest ==
    /\ mode \in Modes
    /\ owner \in Worker \cup {None}
    /\ made \in 0..MaxMade
    /\ faults \in 0..MaxFaults
    /\ overlapped \in BOOLEAN

-----------------------------------------------------------------------------
LEMMA Constants == SceneCount \in Nat \ {0} /\ Spoken \subseteq BOOLEAN /\ 1 \in Scene
  BY AssetPipelinesAssumption DEF Scene

\* The first of some scenes is one of them.
LEMMA FirstIs ==
  ASSUME NEW scenes, scenes \subseteq Scene, scenes # {}
  PROVE  First(scenes) \in scenes
<1>1. scenes \subseteq Nat
  BY Constants DEF Scene
<1>2. PICK n \in scenes : \A k \in scenes : ~(<<k, n>> \in OpToRel(<, Nat))
  BY <1>1, NatLessThanWellFounded, WFMin
<1>3. \A k \in scenes : n <= k
  <2> TAKE k \in scenes
  <2>1. <<k, n>> \in Nat \X Nat
    BY <1>1, <1>2
  <2>2. ~(k < n)
    BY <1>2, <2>1 DEF OpToRel
  <2> QED
    BY <1>1, <2>2
<1> QED
  BY <1>2, <1>3 DEF First

LEMMA NextStepIs ==
  ASSUME spoken \in BOOLEAN, NEW body
  PROVE  /\ NextStep(body) \in Steps
         /\ NextStep(body) = "IMAGES" => body["IMAGES"] = None
         /\ NextStep(body) = "VOICEOVER" => spoken /\ body["VOICEOVER"] = None
         /\ NextStep(body) = "VIDEO" => body["IMAGES"] # None /\ ~(spoken /\ body["VOICEOVER"] = None)
  BY DEF NextStep, Steps

LEMMA NoFilesSound == Sound(NoFiles)
  BY DEF Sound, NoFiles, Steps

LEMMA IdleFine ==
  /\ DOMAIN Idle = Fields /\ Idle.pc = "idle" /\ Idle.body = NoFiles
  /\ Idle.at = 1 /\ Idle.via = None /\ Idle.images = NoImages
  /\ NoImages \in [Scene -> ImageBytes \cup {None}]
  /\ Fine(Idle)
<1>1. /\ DOMAIN Idle = Fields /\ Idle.pc = "idle" /\ Idle.body = NoFiles
      /\ Idle.at = 1 /\ Idle.via = None /\ Idle.images = NoImages
  BY DEF Idle, Fields
<1>2. NoImages \in [Scene -> ImageBytes \cup {None}]
  BY DEF NoImages
<1> QED
  BY <1>1, <1>2, NoFilesSound, Constants DEF Fine, Making, Places, Via

\* The pipeline at its first request has no image yet.
LEMMA BeginFine ==
  ASSUME NEW body, Sound(body)
  PROVE  /\ Fine(Begin(body))
         /\ \A via \in Via : Fine([Begin(body) EXCEPT !.via = via])
<1>1. ASSUME NEW s, DOMAIN s = Fields, s.pc = "read", s.body = body, s.at = 1, s.via \in Via, s.images = NoImages
      PROVE  Fine(s)
  <2>1. \A n \in Scene : NoImages[n] = None
    BY DEF NoImages
  <2> QED
    BY <1>1, <2>1, IdleFine, Constants DEF Fine, Making, Places
<1> DEFINE b == Begin(body)
<1>2. DOMAIN b = Fields /\ b.pc = "read" /\ b.body = body /\ b.at = 1 /\ b.via = Primary /\ b.images = NoImages
  BY IdleFine DEF Begin, Fields
<1>5. Primary \in Via
  BY DEF Primary, Via
<1> HIDE DEF b
<1>3. ASSUME NEW via \in Via PROVE Fine([b EXCEPT !.via = via])
  <2> DEFINE s == [b EXCEPT !.via = via]
  <2>1. DOMAIN s = Fields /\ s.pc = "read" /\ s.body = body /\ s.at = 1 /\ s.via = via /\ s.images = NoImages
    BY <1>2 DEF Fields
  <2> HIDE DEF s
  <2>2. Fine(s)
    BY <1>1, <2>1
  <2> QED
    BY <2>2 DEF s
<1>4. Fine(b)
  BY <1>1, <1>2, <1>5
<1> QED
  BY <1>3, <1>4 DEF b

\* A reference is added for the step that is next.
LEMMA AddSound ==
  ASSUME spoken \in BOOLEAN, NEW body, Sound(body), NEW reference,
         NextStep(body) = "IMAGES" => \A n \in Scene : reference.images[n].by = reference.provider,
         NextStep(body) = "VIDEO" => reference.asked = <<body["IMAGES"], body["VOICEOVER"]>>
  PROVE  Sound([body EXCEPT ![NextStep(body)] = reference])
<1> DEFINE step == NextStep(body)
           b == [body EXCEPT ![step] = reference]
<1>1. step \in Steps /\ DOMAIN body = Steps
  BY NextStepIs DEF Sound
<1>2. DOMAIN b = Steps /\ b[step] = reference /\ \A s \in Steps \ {step} : b[s] = body[s]
  BY <1>1
<1> HIDE DEF b, step
<1>3. CASE step = "IMAGES"
  <2>1. body["VIDEO"] = None
    BY <1>3, NextStepIs DEF Sound, step
  <2>2. b["VIDEO"] = None /\ b["IMAGES"] = reference
    BY <1>2, <1>3, <2>1 DEF Steps
  <2> QED
    BY <1>2, <1>3, <2>2 DEF Sound, step, b
<1>4. CASE step = "VOICEOVER"
  <2>1. body["VIDEO"] = None
    BY <1>4, NextStepIs DEF Sound, step
  <2>2. b["VIDEO"] = None /\ b["IMAGES"] = body["IMAGES"]
    BY <1>2, <1>4, <2>1 DEF Steps
  <2>3. Sound(b)
    BY <1>2, <2>2 DEF Sound
  <2> QED
    BY <2>3 DEF b, step
<1>5. CASE step = "VIDEO"
  <2>1. body["IMAGES"] # None /\ ~(spoken /\ body["VOICEOVER"] = None)
    BY <1>5, NextStepIs DEF step
  <2>2. b["VIDEO"] = reference /\ b["IMAGES"] = body["IMAGES"] /\ b["VOICEOVER"] = body["VOICEOVER"]
    BY <1>2, <1>5 DEF Steps
  <2>3. Sound(b)
    BY <1>2, <1>5, <2>1, <2>2 DEF Sound, step
  <2> QED
    BY <2>3 DEF b, step
<1>6. CASE step = "PACKAGE"
  <2>1. b["VIDEO"] = body["VIDEO"] /\ b["IMAGES"] = body["IMAGES"] /\ b["VOICEOVER"] = body["VOICEOVER"]
    BY <1>2, <1>6 DEF Steps
  <2>2. Sound(b)
    BY <1>2, <2>1 DEF Sound
  <2> QED
    BY <2>2 DEF b, step
<1> QED
  BY <1>1, <1>3, <1>4, <1>5, <1>6 DEF Steps

LEMMA InitIInv == Init => IInv
<1> SUFFICES ASSUME Init PROVE IInv
  OBVIOUS
<1>1. spoken \in Spoken /\ Sound(version)
  BY NoFilesSound DEF Init
<1>2. Labelled
  BY DEF Init, Labelled
<1>3. Workers
  BY IdleFine DEF Init, Workers
<1>4. Objects
  <2>1. \A n \in Scene : ImageKey(n) \in Slot
    BY DEF Slot
  <2> QED
    BY <2>1 DEF Init, Objects
<1> QED
  BY <1>1, <1>2, <1>3, <1>4 DEF IInv

-----------------------------------------------------------------------------
\* One delivery moves.
Moved(w, s) == Fine(s) /\ worker' = [worker EXCEPT ![w] = s]

LEMMA Change ==
  ASSUME Workers, NEW w \in Worker, NEW s, Moved(w, s), UNCHANGED spoken
  PROVE  Workers'
<1>1. DOMAIN worker' = Worker /\ worker'[w] = s /\ \A v \in Worker \ {w} : worker'[v] = worker[v]
  BY DEF Workers, Moved
<1>2. ASSUME NEW t, Fine(t) PROVE Fine(t)'
  BY <1>2 DEF Fine, Sound, NextStep
<1>3. ASSUME NEW v \in Worker PROVE Fine(worker[v])'
  <2>1. CASE v = w
    BY <1>1, <1>2, <2>1 DEF Moved
  <2>2. CASE v # w
    <3>1. Fine(worker[v])
      BY DEF Workers
    <3> QED
      BY <1>1, <1>2, <2>2, <3>1
  <2> QED
    BY <2>1, <2>2
<1> QED
  BY <1>1, <1>3 DEF Workers

LEMMA VersionKept ==
  ASSUME Sound(version), UNCHANGED <<spoken, version>>
  PROVE  Sound(version)'
  BY DEF Sound

LEMMA MetadataKept ==
  ASSUME Labelled, UNCHANGED metadata
  PROVE  Labelled'
  BY DEF Labelled

LEMMA ObjectsKept ==
  ASSUME Objects, UNCHANGED object
  PROVE  Objects'
  BY DEF Objects

\* A step that moves one delivery and writes neither files nor version.
LEMMA Quiet ==
  ASSUME IInv, NEW w \in Worker, NEW s, Moved(w, s), UNCHANGED <<spoken, version, metadata, object>>
  PROVE  IInv'
<1>1. (spoken \in Spoken)'
  BY DEF IInv
<1> QED
  BY <1>1, Change, VersionKept, MetadataKept, ObjectsKept DEF IInv

\* The next place of the same pipeline.
LEMMA GotoFine ==
  ASSUME NEW s, Fine(s), NEW pc, NEW bytes,
         s.pc \in Making \/ NextStep(s.body) # "IMAGES",
         pc \in Places \ {"read"},
         pc \in {"check", "put", "describe"} /\ NextStep(s.body) = "IMAGES" => bytes \in ImageBytes,
         pc \in {"put", "describe"} /\ NextStep(s.body) = "IMAGES" => bytes.by = s.via,
         pc \in {"put", "describe"} /\ NextStep(s.body) = "VIDEO" =>
            bytes.asked = <<s.body["IMAGES"], s.body["VOICEOVER"]>>
  PROVE  Fine([s EXCEPT !.pc = pc, !.bytes = bytes])
<1> DEFINE t == [s EXCEPT !.pc = pc, !.bytes = bytes]
<1>1. /\ DOMAIN t = Fields /\ t.pc = pc /\ t.bytes = bytes
      /\ t.body = s.body /\ t.at = s.at /\ t.via = s.via /\ t.images = s.images
  BY DEF Fine, Fields
<1> HIDE DEF t
<1>2. Fine(t)
  BY <1>1 DEF Fine, Making
<1> QED
  BY <1>2 DEF t

\* The reference is added, and the delivery is at its save.
LEMMA ReturnFine ==
  ASSUME spoken \in BOOLEAN, Workers, NEW w \in Worker, NEW reference, Return(w, reference),
         NextStep(worker[w].body) = "IMAGES" => \A n \in Scene : reference.images[n].by = reference.provider,
         NextStep(worker[w].body) = "VIDEO" =>
            reference.asked = <<worker[w].body["IMAGES"], worker[w].body["VOICEOVER"]>>
  PROVE  \E s : Moved(w, s)
<1> DEFINE body == [worker[w].body EXCEPT ![NextStep(worker[w].body)] = reference]
           s == [Idle EXCEPT !.pc = "save", !.body = body]
<1>1. Sound(body)
  BY AddSound DEF Workers, Fine
<1>2. DOMAIN s = Fields /\ s.pc = "save" /\ s.body = body /\ s.at = 1 /\ s.via = None /\ s.images = NoImages
  BY IdleFine DEF Fields
<1>3. worker' = [worker EXCEPT ![w] = s]
  BY DEF Return
<1> HIDE DEF s, body
<1>5. Fine(s)
  BY <1>1, <1>2, IdleFine, Constants DEF Fine, Making, Places, Via
<1> QED
  BY <1>3, <1>5 DEF Moved

\* A scene is settled with images that are by the delivery's provider.
LEMMA SettleFine ==
  ASSUME spoken \in BOOLEAN, Workers, NEW w \in Worker, NEW images, Settle(w, images),
         worker[w].pc \in {"read", "check", "describe"},
         NextStep(worker[w].body) = "IMAGES",
         images \in [Scene -> ImageBytes \cup {None}],
         \A n \in Scene : images[n] # None => images[n].by = worker[w].via
  PROVE  \E s : Moved(w, s)
<1> DEFINE t(pc, at) == [worker[w] EXCEPT !.pc = pc, !.at = at, !.images = images, !.bytes = None]
<1>1. Fine(worker[w])
  BY DEF Workers
<1>2. ASSUME NEW pc \in {"read", "make"}, NEW at \in Scene
      PROVE  Fine(t(pc, at))
  <2> DEFINE s == t(pc, at)
  <2>1. /\ DOMAIN s = Fields /\ s.pc = pc /\ s.at = at /\ s.images = images
        /\ s.body = worker[w].body /\ s.via = worker[w].via
    BY <1>1 DEF Fine, Fields
  <2> HIDE DEF s
  <2>2. Fine(s)
    BY <1>1, <1>2, <2>1 DEF Fine, Making, Places
  <2> QED
    BY <2>2 DEF s
<1>3. CASE worker[w].pc # "describe" /\ worker[w].at < SceneCount
  <2>1. worker[w].at + 1 \in Scene
    BY <1>1, <1>3, Constants DEF Fine, Scene
  <2>2. worker' = [worker EXCEPT ![w] = t("read", worker[w].at + 1)]
    BY <1>3 DEF Settle
  <2>3. Fine(t("read", worker[w].at + 1))
    BY <1>2, <2>1
  <2> QED
    BY <2>2, <2>3 DEF Moved
<1>4. CASE ~(worker[w].pc # "describe" /\ worker[w].at < SceneCount) /\ Missing(images) = {}
  <2>1. Return(w, ImageReferences(w, images))
    BY <1>4 DEF Settle
  <2>2. \A n \in Scene : images[n].by = worker[w].via
    BY <1>4 DEF Missing
  <2>3. \A n \in Scene : ImageReferences(w, images).images[n].by = ImageReferences(w, images).provider
    BY <2>2 DEF ImageReferences
  <2> QED
    BY <2>1, <2>3, ReturnFine
<1>5. CASE ~(worker[w].pc # "describe" /\ worker[w].at < SceneCount) /\ Missing(images) # {}
  <2>1. worker' = [worker EXCEPT ![w] = t("make", First(Missing(images)))]
    BY <1>5 DEF Settle
  <2>2. Fine(t("make", First(Missing(images))))
    <3>1. First(Missing(images)) \in Scene
      BY <1>5, FirstIs DEF Missing
    <3> QED
      BY <1>2, <3>1
  <2> QED
    BY <2>1, <2>2 DEF Moved
<1> QED
  BY <1>3, <1>4, <1>5

\* What reconcile finds is what its fingerprint says.
LEMMA HitIs ==
  ASSUME Labelled, NEW w, NEW slot \in Slot, NEW fingerprint, IsHit(w, slot, fingerprint)
  PROVE  /\ fingerprint[1] = "images" => worker[w].bytes.by = fingerprint[2]
         /\ fingerprint[1] = "video" => worker[w].bytes.asked = <<fingerprint[2], fingerprint[3]>>
<1>1. /\ metadata[slot] # None
      /\ metadata[slot].fingerprint = fingerprint /\ metadata[slot].checksum = worker[w].bytes
  BY DEF IsHit, Described
<1> QED
  BY <1>1 DEF Labelled

\* A file is described by a fingerprint that says what it is.
LEMMA DescribeLabelled ==
  ASSUME Labelled, NEW slot, NEW fingerprint, NEW checksum, PutMetadata(slot, fingerprint, checksum),
         fingerprint[1] = "images" => checksum.by = fingerprint[2],
         fingerprint[1] = "video" => checksum.asked = <<fingerprint[2], fingerprint[3]>>
  PROVE  Labelled'
<1> DEFINE d == Described(fingerprint, checksum)
<1>1. d.fingerprint = fingerprint /\ d.checksum = checksum /\ DOMAIN d = {"fingerprint", "checksum"}
  BY DEF Described
<1>2. /\ DOMAIN metadata' = Slot
      /\ \A k \in Slot : metadata'[k] = IF k = slot THEN d ELSE metadata[k]
  BY DEF PutMetadata, Labelled
<1> HIDE DEF d
<1> QED
  BY <1>1, <1>2 DEF Labelled
-----------------------------------------------------------------------------
(* The actions.                                                            *)

\* What an action of worker w may take for granted.
LEMMA Given ==
  ASSUME IInv, NEW w \in Worker
  PROVE  spoken \in BOOLEAN /\ Labelled /\ Objects /\ Workers /\ Sound(version) /\ Fine(worker[w])
  BY Constants DEF IInv, Workers

\* No more images and voices are made than the bound allows.
LEMMA MadeType ==
  ASSUME Rest, NEW w, GenerateImage(w) \/ Synthesize(w)
  PROVE  made' \in 1..MaxMade
  BY AssetPipelinesAssumption DEF Rest, GenerateImage, Synthesize

\* The keys of the other files are not keys of images.
LEMMA OtherKeys ==
  /\ {VoiceKey, VideoKey, PackageKey} \subseteq Slot
  /\ \A n \in Scene : ImageKey(n) \in Slot /\ ImageKey(n) \notin {VoiceKey, VideoKey, PackageKey}
<1>1. VoiceKey[1] = "VOICEOVER" /\ VideoKey[1] = "VIDEO" /\ PackageKey[1] = "PACKAGE"
  BY DEF VoiceKey, VideoKey, PackageKey
<1>2. \A n \in Scene : ImageKey(n)[1] = "IMAGES"
  BY DEF ImageKey
<1> QED
  BY <1>1, <1>2 DEF Slot

\* The delivery ends where it is.
LEMMA EndFine ==
  ASSUME NEW w \in Worker, worker' = [worker EXCEPT ![w] = Idle]
  PROVE  Moved(w, Idle)
  BY IdleFine DEF Moved

LEMMA Loads == ASSUME IInv, NEW w \in Worker, Load(w) PROVE IInv'
<1> DEFINE s == [Idle EXCEPT !.pc = "loaded", !.body = version]
<1>1. DOMAIN s = Fields /\ s.pc = "loaded" /\ s.body = version /\ s.at = 1 /\ s.via = None /\ s.images = NoImages
  BY IdleFine DEF Fields
<1>2. worker' = [worker EXCEPT ![w] = s] /\ UNCHANGED <<spoken, version, metadata, object>>
  BY DEF Load, fixed, store
<1> HIDE DEF s
<1>4. Fine(s)
  BY <1>1, IdleFine, Constants, Given DEF Fine, Making, Places, Via
<1> QED
  BY <1>2, <1>4, Quiet DEF Moved

LEMMA Takes == ASSUME IInv, NEW w \in Worker, Take(w) PROVE IInv'
<1>1. Fine(Begin(worker[w].body))
  BY Given, BeginFine DEF Fine
<1>2. worker' = [worker EXCEPT ![w] = Begin(worker[w].body)] /\ UNCHANGED <<spoken, version, metadata, object>>
  BY DEF Take, fixed, store
<1> QED
  BY <1>1, <1>2, Quiet DEF Moved

LEMMA Saves == ASSUME IInv, NEW w \in Worker, Save(w) PROVE IInv'
<1>1. version' = worker[w].body /\ UNCHANGED <<spoken, metadata, object>>
  BY DEF Save, fixed, store
<1>2. Sound(worker[w].body)
  BY Given DEF Fine
<1>3. Sound(version)'
  BY <1>1, <1>2 DEF Sound
<1>4. PICK s : Moved(w, s)
  <2>1. CASE worker[w].body["PACKAGE"] # None
    BY <2>1, EndFine DEF Save
  <2>2. CASE worker[w].body["PACKAGE"] = None
    BY <1>2, <2>2, BeginFine DEF Save, Moved
  <2> QED
    BY <2>1, <2>2
<1> QED
  BY <1>1, <1>3, <1>4, Change, MetadataKept, ObjectsKept DEF IInv

LEMMA Ends ==
  ASSUME IInv, NEW w \in Worker, Lost(w) \/ Abandon(w) \/ RefuseVideo(w)
  PROVE  IInv'
<1>1. worker' = [worker EXCEPT ![w] = Idle] /\ UNCHANGED <<spoken, version, metadata, object>>
  BY DEF Lost, Abandon, RefuseVideo, fixed, store
<1> QED
  BY <1>1, EndFine, Quiet

LEMMA ReadsImage == ASSUME IInv, NEW w \in Worker, ReadImage(w) PROVE IInv'
<1>1. /\ worker[w].pc = "read" /\ NextStep(worker[w].body) = "IMAGES"
      /\ UNCHANGED <<spoken, version, metadata, object>>
  BY DEF ReadImage, At, fixed, store
<1>2. \E s : Moved(w, s)
  <2>1. CASE object[ImageKey(worker[w].at)] = None
    <3>1. Settle(w, worker[w].images)
      BY <2>1 DEF ReadImage
    <3> QED
      BY <1>1, <3>1, Given, SettleFine DEF Fine, Making
  <2>2. CASE object[ImageKey(worker[w].at)] # None
    <3>1. Goto(w, "check", object[ImageKey(worker[w].at)])
      BY <2>2 DEF ReadImage
    <3>2. worker[w].at \in Scene
      BY Given DEF Fine
    <3>3. object[ImageKey(worker[w].at)] \in ImageBytes
      BY <2>2, <3>2, Given DEF Objects
    <3>4. Fine([worker[w] EXCEPT !.pc = "check", !.bytes = object[ImageKey(worker[w].at)]])
      BY <1>1, <3>3, Given, GotoFine DEF Making, Places
    <3> QED
      BY <3>1, <3>4 DEF Goto, Moved
  <2> QED
    BY <2>1, <2>2
<1> QED
  BY <1>1, <1>2, Quiet

LEMMA ChecksImage == ASSUME IInv, NEW w \in Worker, CheckImage(w) PROVE IInv'
<1> DEFINE n == worker[w].at
           images == IF IsHit(w, ImageKey(n), ImageFingerprint(worker[w].via))
                     THEN [worker[w].images EXCEPT ![n] = worker[w].bytes] ELSE worker[w].images
<1>1. /\ worker[w].pc = "check" /\ NextStep(worker[w].body) = "IMAGES"
      /\ UNCHANGED <<spoken, version, metadata, object>>
      /\ Settle(w, images)
  BY DEF CheckImage, At, fixed, store
<1>2. /\ n \in Scene /\ worker[w].images \in [Scene -> ImageBytes \cup {None}]
      /\ worker[w].bytes \in ImageBytes
      /\ \A k \in Scene : worker[w].images[k] # None => worker[w].images[k].by = worker[w].via
  BY <1>1, Given DEF Fine, Making
<1>3. IsHit(w, ImageKey(n), ImageFingerprint(worker[w].via)) => worker[w].bytes.by = worker[w].via
  <2>1. ImageKey(n) \in Slot
    BY <1>2 DEF Slot
  <2>2. ImageFingerprint(worker[w].via)[1] = "images" /\ ImageFingerprint(worker[w].via)[2] = worker[w].via
    BY DEF ImageFingerprint
  <2> QED
    BY <2>1, <2>2, Given, HitIs
<1>4. images \in [Scene -> ImageBytes \cup {None}] /\ \A k \in Scene : images[k] # None => images[k].by = worker[w].via
  BY <1>2, <1>3
<1> HIDE DEF images
<1>5. \E s : Moved(w, s)
  BY <1>1, <1>4, Given, SettleFine
<1> QED
  BY <1>1, <1>5, Quiet

LEMMA MakesImage ==
  ASSUME IInv, Rest, NEW w \in Worker, GenerateImage(w) \/ ChoosePhoto(w)
  PROVE  IInv'
<1>1. /\ worker[w].pc = "make" /\ NextStep(worker[w].body) = "IMAGES"
      /\ UNCHANGED <<spoken, version, metadata, object>>
  BY DEF GenerateImage, ChoosePhoto, At, fixed, store
<1>2. PICK bytes \in ImageBytes : Goto(w, "put", bytes) /\ bytes.by = worker[w].via
  <2>1. CASE GenerateImage(w)
    <3>1. Goto(w, "put", Generated(made')) /\ worker[w].via = "cloudflare-workers-ai"
      BY <2>1 DEF GenerateImage
    <3>2. Generated(made').by = "cloudflare-workers-ai"
      BY DEF Generated
    <3>3. Generated(made') \in ImageBytes
      BY <2>1, MadeType DEF GenerateImage, Generated, ImageBytes
    <3> QED
      BY <3>1, <3>2, <3>3
  <2>2. CASE ChoosePhoto(w)
    <3>1. PICK photo \in Photo : Goto(w, "put", Stock(photo)) /\ worker[w].via = "pexels"
      BY <2>2 DEF ChoosePhoto
    <3>2. Stock(photo).by = "pexels" /\ Stock(photo) \in ImageBytes
      BY <3>1 DEF Stock, ImageBytes
    <3> QED
      BY <3>1, <3>2
  <2> QED
    BY <2>1, <2>2
<1>3. Fine([worker[w] EXCEPT !.pc = "put", !.bytes = bytes])
  BY <1>1, <1>2, Given, GotoFine DEF Making, Places
<1> QED
  BY <1>1, <1>2, <1>3, Quiet DEF Goto, Moved

LEMMA FallsBack == ASSUME IInv, NEW w \in Worker, FallBack(w) PROVE IInv'
<1>1. Sound(worker[w].body)
  BY Given DEF Fine
<1>2. \A via \in Via : Fine([Begin(worker[w].body) EXCEPT !.via = via])
  BY <1>1, BeginFine
<1>3. Fine([Begin(worker[w].body) EXCEPT !.via = "pexels"])
  BY <1>2 DEF Via
<1> QED
  BY <1>3, Quiet DEF FallBack, fixed, store, Moved

\* The upload of a file: the bytes stay what they are.
LEMMA Puts ==
  ASSUME IInv, NEW w \in Worker,
         PutImage(w) \/ PutVoice(w) \/ PutVideo(w) \/ PutPackage(w)
  PROVE  IInv'
<1>1. /\ worker[w].pc = "put" /\ Goto(w, "describe", worker[w].bytes)
      /\ UNCHANGED <<spoken, version, metadata>>
  BY DEF PutImage, PutVoice, PutVideo, PutPackage, PutObject, At, fixed
<1>2. Fine([worker[w] EXCEPT !.pc = "describe", !.bytes = worker[w].bytes])
  <2>1. /\ NextStep(worker[w].body) = "IMAGES" =>
              worker[w].bytes.by = worker[w].via /\ worker[w].bytes \in ImageBytes
        /\ NextStep(worker[w].body) = "VIDEO" =>
              worker[w].bytes.asked = <<worker[w].body["IMAGES"], worker[w].body["VOICEOVER"]>>
    BY <1>1, Given DEF Fine
  <2> QED
    BY <1>1, <2>1, Given, GotoFine DEF Making, Places
<1>3. Objects'
  <2>1. PICK slot \in Slot :
          /\ object' = [object EXCEPT ![slot] = worker[w].bytes]
          /\ worker[w].bytes \in ImageBytes \/ \A n \in Scene : slot # ImageKey(n)
    <3>1. CASE PutImage(w)
      <4>1. worker[w].bytes \in ImageBytes /\ ImageKey(worker[w].at) \in Slot
        BY <3>1, Given DEF PutImage, At, Fine, Slot
      <4> QED
        BY <3>1, <4>1 DEF PutImage, PutObject
    <3>2. CASE PutVoice(w)
      BY <3>2, OtherKeys DEF PutVoice, PutObject
    <3>3. CASE PutVideo(w)
      BY <3>3, OtherKeys DEF PutVideo, PutObject
    <3>4. CASE PutPackage(w)
      BY <3>4, OtherKeys DEF PutPackage, PutObject
    <3> QED
      BY <3>1, <3>2, <3>3, <3>4
  <2>2. /\ DOMAIN object' = Slot
        /\ \A k \in Slot : object'[k] = IF k = slot THEN worker[w].bytes ELSE object[k]
    BY <2>1, Given DEF Objects
  <2>3. \A n \in Scene : ImageKey(n) \in Slot
    BY DEF Slot
  <2> QED
    BY <2>1, <2>2, <2>3, Given DEF Objects
<1>4. (spoken \in Spoken)'
  BY <1>1 DEF IInv
<1> QED
  BY <1>1, <1>2, <1>3, <1>4, Given, Change, VersionKept, MetadataKept DEF Goto, Moved, IInv

LEMMA DescribesImage == ASSUME IInv, NEW w \in Worker, DescribeImage(w) PROVE IInv'
<1> DEFINE images == [worker[w].images EXCEPT ![worker[w].at] = worker[w].bytes]
<1>1. /\ worker[w].pc = "describe" /\ NextStep(worker[w].body) = "IMAGES"
      /\ UNCHANGED <<spoken, version, object>>
      /\ PutMetadata(ImageKey(worker[w].at), ImageFingerprint(worker[w].via), worker[w].bytes)
      /\ Settle(w, images)
  BY DEF DescribeImage, At, fixed
<1>2. /\ worker[w].bytes.by = worker[w].via /\ worker[w].bytes \in ImageBytes
      /\ worker[w].images \in [Scene -> ImageBytes \cup {None}]
      /\ \A k \in Scene : worker[w].images[k] # None => worker[w].images[k].by = worker[w].via
  BY <1>1, Given DEF Fine, Making
<1>3. images \in [Scene -> ImageBytes \cup {None}] /\ \A k \in Scene : images[k] # None => images[k].by = worker[w].via
  BY <1>2
<1> HIDE DEF images
<1>4. PICK s : Moved(w, s)
  BY <1>1, <1>3, Given, SettleFine
<1>5. Labelled'
  <2>1. ImageFingerprint(worker[w].via)[1] = "images" /\ ImageFingerprint(worker[w].via)[2] = worker[w].via
    BY DEF ImageFingerprint
  <2> QED
    BY <1>1, <1>2, <2>1, Given, DescribeLabelled
<1> QED
  BY <1>1, <1>4, <1>5, Given, Change, VersionKept, ObjectsKept DEF IInv

LEMMA ReadsFile ==
  ASSUME IInv, NEW w \in Worker, ReadVoice(w) \/ ReadVideo(w) \/ ReadPackage(w)
  PROVE  IInv'
<1>1. /\ worker[w].pc = "read" /\ NextStep(worker[w].body) # "IMAGES"
      /\ UNCHANGED <<spoken, version, metadata, object>>
  BY DEF ReadVoice, ReadVideo, ReadPackage, At, fixed, store
<1>2. PICK pc \in {"make", "download", "check"} : \E bytes : Goto(w, pc, bytes)
  BY DEF ReadVoice, ReadVideo, ReadPackage, Get
<1>3. PICK bytes : Goto(w, pc, bytes)
  BY <1>2
<1>4. Fine([worker[w] EXCEPT !.pc = pc, !.bytes = bytes])
  BY <1>1, Given, GotoFine DEF Making, Places
<1> QED
  BY <1>1, <1>3, <1>4, Quiet DEF Goto, Moved

\* Reconcile finds the file, or the pipeline makes it.
LEMMA ChecksFile ==
  ASSUME IInv, NEW w \in Worker, CheckVoice(w) \/ CheckVideo(w) \/ CheckPackage(w)
  PROVE  IInv'
<1>1. worker[w].pc = "check" /\ NextStep(worker[w].body) # "IMAGES" /\ UNCHANGED <<spoken, version, metadata, object>>
  BY DEF CheckVoice, CheckVideo, CheckPackage, At, fixed, store
<1>2. CASE \E pc \in {"make", "download"} : Goto(w, pc, None)
  <2>1. PICK pc \in {"make", "download"} : Goto(w, pc, None)
    BY <1>2
  <2>2. Fine([worker[w] EXCEPT !.pc = pc, !.bytes = None])
    BY <1>1, Given, GotoFine DEF Making, Places
  <2> QED
    BY <1>1, <2>1, <2>2, Quiet DEF Goto, Moved
<1>3. CASE ~\E pc \in {"make", "download"} : Goto(w, pc, None)
  <2>1. Return(w, worker[w].bytes)
    BY <1>3 DEF CheckVoice, CheckVideo, CheckPackage
  <2>2. ASSUME NextStep(worker[w].body) = "VIDEO"
        PROVE  worker[w].bytes.asked = <<worker[w].body["IMAGES"], worker[w].body["VOICEOVER"]>>
    <3>1. IsHit(w, VideoKey, VideoFingerprint(worker[w].body))
      BY <1>3, <2>2 DEF CheckVoice, CheckVideo, CheckPackage, At
    <3>2. VideoKey \in Slot
      BY DEF Slot
    <3>3. /\ VideoFingerprint(worker[w].body)[1] = "video"
          /\ VideoFingerprint(worker[w].body)[2] = worker[w].body["IMAGES"]
          /\ VideoFingerprint(worker[w].body)[3] = worker[w].body["VOICEOVER"]
      BY DEF VideoFingerprint
    <3> QED
      BY <3>1, <3>2, <3>3, Given, HitIs
  <2>3. \E s : Moved(w, s)
    BY <1>1, <2>1, <2>2, Given, ReturnFine
  <2> QED
    BY <1>1, <2>3, Quiet
<1> QED
  BY <1>2, <1>3

\* A file of a later step is made.
LEMMA Makes ==
  ASSUME IInv, NEW w \in Worker, Synthesize(w) \/ Render(w) \/ Build(w)
  PROVE  IInv'
<1>1. PICK bytes :
        /\ Goto(w, "put", bytes)
        /\ NextStep(worker[w].body) = "VIDEO" =>
              bytes.asked = <<worker[w].body["IMAGES"], worker[w].body["VOICEOVER"]>>
  <2>1. CASE Synthesize(w)
    BY <2>1 DEF Synthesize, At
  <2>2. CASE Render(w)
    BY <2>2 DEF Render
  <2>3. CASE Build(w)
    BY <2>3 DEF Build
  <2> QED
    BY <2>1, <2>2, <2>3
<1>2. NextStep(worker[w].body) # "IMAGES" /\ UNCHANGED <<spoken, version, metadata, object>>
  BY DEF Synthesize, Render, Build, At, fixed, store
<1>3. Fine([worker[w] EXCEPT !.pc = "put", !.bytes = bytes])
  BY <1>1, <1>2, Given, GotoFine DEF Places, Making
<1> QED
  BY <1>1, <1>2, <1>3, Quiet DEF Goto, Moved

LEMMA Downloads == ASSUME IInv, NEW w \in Worker, Download(w) PROVE IInv'
<1>1. PICK got : worker' = [worker EXCEPT ![w] = [worker[w] EXCEPT !.got = got]]
  BY DEF Download
<1> DEFINE s == [worker[w] EXCEPT !.got = got]
<1>2. Fine(worker[w]) /\ worker[w].pc = "download" /\ UNCHANGED <<spoken, version, metadata, object>>
  BY Given DEF Download, fixed, store
<1>3. /\ DOMAIN s = Fields /\ s.pc = worker[w].pc /\ s.at = worker[w].at /\ s.via = worker[w].via
      /\ s.body = worker[w].body /\ s.images = worker[w].images
  BY <1>2 DEF Fine, Fields
<1>4. worker' = [worker EXCEPT ![w] = s]
  BY <1>1
<1> HIDE DEF s
<1>5. Fine(s)
  BY <1>2, <1>3 DEF Fine, Making
<1> QED
  BY <1>2, <1>4, <1>5, Quiet DEF Moved

\* The description of a file completes its step.
LEMMA DescribesFile ==
  ASSUME IInv, NEW w \in Worker, DescribeVoice(w) \/ DescribeVideo(w) \/ DescribePackage(w)
  PROVE  IInv'
<1>1. /\ worker[w].pc = "describe" /\ NextStep(worker[w].body) # "IMAGES" /\ UNCHANGED <<spoken, version, object>>
      /\ Return(w, worker[w].bytes)
  BY DEF DescribeVoice, DescribeVideo, DescribePackage, At, fixed
<1>2. NextStep(worker[w].body) = "VIDEO" =>
         worker[w].bytes.asked = <<worker[w].body["IMAGES"], worker[w].body["VOICEOVER"]>>
  BY <1>1, Given DEF Fine
<1>3. PICK s : Moved(w, s)
  BY <1>1, <1>2, Given, ReturnFine
<1>4. Labelled'
  <2>1. CASE DescribeVoice(w)
    <3>1. VoiceFingerprint[1] = "voice"
      BY DEF VoiceFingerprint
    <3> QED
      BY <2>1, <3>1, Given, DescribeLabelled DEF DescribeVoice
  <2>2. CASE DescribeVideo(w)
    <3>1. /\ VideoFingerprint(worker[w].body)[1] = "video"
          /\ VideoFingerprint(worker[w].body)[2] = worker[w].body["IMAGES"]
          /\ VideoFingerprint(worker[w].body)[3] = worker[w].body["VOICEOVER"]
      BY DEF VideoFingerprint
    <3> QED
      BY <1>2, <2>2, <3>1, Given, DescribeLabelled DEF DescribeVideo, At
  <2>3. CASE DescribePackage(w)
    <3>1. PackageFingerprint(worker[w].body)[1] = "package"
      BY DEF PackageFingerprint
    <3> QED
      BY <2>3, <3>1, Given, DescribeLabelled DEF DescribePackage
  <2> QED
    BY <2>1, <2>2, <2>3
<1> QED
  BY <1>1, <1>3, <1>4, Given, Change, VersionKept, ObjectsKept DEF IInv

LEMMA NextIInv == ASSUME IInv, Rest, [Next]_vars PROVE IInv'
<1>1. CASE UNCHANGED vars
  <2>1. UNCHANGED <<spoken, version, metadata, object, worker>>
    BY <1>1 DEF vars
  <2>2. (spoken \in Spoken)' /\ Sound(version)' /\ Labelled' /\ Objects'
    BY <2>1, VersionKept, MetadataKept, ObjectsKept DEF IInv
  <2>3. Workers'
    BY <2>1 DEF IInv, Workers, Fine, Sound, NextStep
  <2> QED
    BY <2>2, <2>3 DEF IInv
<1>2. ASSUME NEW w \in Worker, Images(w) PROVE IInv'
  BY <1>2, ReadsImage, ChecksImage, MakesImage, FallsBack, Puts, DescribesImage DEF Images
<1>3. ASSUME NEW w \in Worker, Voice(w) PROVE IInv'
  BY <1>3, ReadsFile, ChecksFile, Makes, Puts, DescribesFile DEF Voice
<1>4. ASSUME NEW w \in Worker, Video(w) PROVE IInv'
  BY <1>4, ReadsFile, ChecksFile, Ends, Makes, Puts, DescribesFile DEF Video
<1>5. ASSUME NEW w \in Worker, Package(w) PROVE IInv'
  BY <1>5, ReadsFile, ChecksFile, Makes, Puts, DescribesFile DEF Package
<1> QED
  BY <1>1, <1>2, <1>3, <1>4, <1>5, Loads, Takes, Saves, Ends, Downloads DEF Next


\* The owner, the counters and the history.
LEMMA InitRest == Init => Rest
<1> SUFFICES ASSUME Init PROVE Rest
  OBVIOUS
<1>1. made \in 0..MaxMade /\ faults \in 0..MaxFaults
  BY AssetPipelinesAssumption DEF Init
<1>2. mode \in Modes /\ owner \in Worker \cup {None} /\ overlapped \in BOOLEAN
  BY DEF Init
<1> QED
  BY <1>1, <1>2 DEF Rest

LEMMA NextRest == ASSUME Rest, [Next]_vars PROVE Rest'
<1>1. CASE UNCHANGED vars
  BY <1>1 DEF vars, Rest
<1>2. ASSUME NEW w \in Worker, Fault PROVE faults' \in 0..MaxFaults
  BY <1>2, AssetPipelinesAssumption DEF Fault, Rest
<1>3. ASSUME NEW w \in Worker, GenerateImage(w) \/ Synthesize(w) PROVE Rest'
  <2>1. made' \in 0..MaxMade
    BY <1>3, MadeType
  <2> QED
    BY <1>3, <2>1 DEF GenerateImage, Synthesize, fixed, Rest
<1>4. ASSUME NEW w \in Worker, Take(w) PROVE Rest'
  <2>1. faults' \in 0..MaxFaults
    BY <1>2, <1>4 DEF Take, Rest
  <2>2. overlapped' \in BOOLEAN
    BY <1>4 DEF Take, Rest
  <2> QED
    BY <1>4, <2>1, <2>2 DEF Take, fixed, Rest
<1>5. ASSUME NEW w \in Worker, Load(w) \/ Save(w) \/ Lost(w) \/ RefuseVideo(w) \/ Download(w) PROVE Rest'
  BY <1>5 DEF Load, Save, Lost, RefuseVideo, Download, fixed, Rest
<1>6. ASSUME NEW w \in Worker, Abandon(w) \/ FallBack(w) PROVE Rest'
  <2>1. faults' \in 0..MaxFaults
    BY <1>2, <1>6 DEF Abandon, FallBack
  <2> QED
    BY <1>6, <2>1 DEF Abandon, FallBack, fixed, Rest
<1>7. ASSUME NEW w \in Worker,
             ReadImage(w) \/ CheckImage(w) \/ ChoosePhoto(w) \/ PutImage(w) \/ DescribeImage(w)
      PROVE  Rest'
  BY <1>7 DEF ReadImage, CheckImage, ChoosePhoto, PutImage, DescribeImage, fixed, Rest
<1>8. ASSUME NEW w \in Worker,
             \/ ReadVoice(w) \/ CheckVoice(w) \/ PutVoice(w) \/ DescribeVoice(w)
             \/ ReadVideo(w) \/ CheckVideo(w) \/ Render(w) \/ PutVideo(w) \/ DescribeVideo(w)
             \/ ReadPackage(w) \/ CheckPackage(w) \/ Build(w) \/ PutPackage(w) \/ DescribePackage(w)
      PROVE  Rest'
  BY <1>8 DEF ReadVoice, CheckVoice, PutVoice, DescribeVoice, ReadVideo, CheckVideo, Render, PutVideo,
              DescribeVideo, ReadPackage, CheckPackage, Build, PutPackage, DescribePackage, fixed, Rest
<1> QED
  BY <1>1, <1>3, <1>4, <1>5, <1>6, <1>7, <1>8 DEF Next, Images, Voice, Video, Package

-----------------------------------------------------------------------------
\* Bytes are by the provider of their fingerprint and delivery, in the store
\* and in every delivery, whatever the others do.
THEOREM Inductive == Spec => [](IInv /\ Rest)
<1>1. Init => IInv /\ Rest
  BY InitIInv, InitRest
<1>2. IInv /\ Rest /\ [Next]_vars => (IInv /\ Rest)'
  BY NextIInv, NextRest
<1> QED
  BY <1>1, <1>2, PTL DEF Spec

\* The types of the variables.
THEOREM TypeCorrect == Spec => []TypeOK
<1>1. IInv /\ Rest => TypeOK
  BY DEF IInv, Rest, Sound, Labelled, Objects, Workers, Fine, Places, Making, Via, TypeOK
<1> QED
  BY <1>1, Inductive, PTL

\* generative_pipeline.py: "the returned list can never mix providers"; the
\* provider that is shown beside the images made each of them.
THEOREM ProviderIsTrueHolds == Spec => []ProviderIsTrue
<1>1. IInv => ProviderIsTrue
  BY DEF IInv, Sound, ProviderIsTrue, Pictures
<1> QED
  BY <1>1, Inductive, PTL

\* video/pipeline.py: a video that is found is that of the references.
THEOREM VideoIsOfItsReferencesHolds == Spec => []VideoIsOfItsReferences
<1>1. IInv => VideoIsOfItsReferences
  BY DEF IInv, Sound, VideoIsOfItsReferences
<1> QED
  BY <1>1, Inductive, PTL

-----------------------------------------------------------------------------
(* Deliveries that do not overlap.  The one that is at work has the body   *)
(* that is in the table, and what it holds is what is under the keys.  O   *)
(* and M stand for the objects and the metadata objects.                   *)

\* A stock photo that the stock pipeline will find.
Valid(n, O, M) ==
    /\ O[ImageKey(n)] # None
    /\ M[ImageKey(n)] = Described(ImageFingerprint("pexels"), O[ImageKey(n)])

\* No photo is found twice.
Distinct(O, M) ==
    \A n, k \in Scene : Valid(n, O, M) /\ Valid(k, O, M) /\ O[ImageKey(n)] = O[ImageKey(k)] => n = k

\* The video shows these images, with this voice; the package holds them.
Shows(bytes, images, voice) ==
    /\ \A n \in Scene : bytes.of[ImageKey(n)] = images.images[n]
    /\ spoken => bytes.of[VoiceKey] = voice

Manifest(m, images, voice, video) ==
    /\ m = [s \in Steps |-> m[s]]
    /\ m["IMAGES"] = images /\ m["VOICEOVER"] = voice /\ m["VIDEO"] = video /\ m["PACKAGE"] = None

Holds(bytes, images, voice, video) ==
    /\ Shows(bytes, images, voice)
    /\ bytes.of[VideoKey] = video
    /\ Manifest(bytes.manifest, images, voice, video)

\* What video and package are described as is what they were made of.
Named(M) ==
    \A slot \in Slot : M[slot] # None =>
        LET f == M[slot].fingerprint IN
        /\ f[1] = "video" => Shows(M[slot].checksum, f[2], f[3])
        /\ f[1] = "package" => Holds(M[slot].checksum, f[2], f[3], f[4])

Reference(body, slot) == IF slot[1] = "IMAGES" THEN body["IMAGES"].images[slot[2]] ELSE body[slot[1]]

\* The files that a body refers to are under their keys.
Filed(body, O) ==
    /\ body = [s \in Steps |-> body[s]]
    /\ \A slot \in Slot : body[slot[1]] # None => O[slot] = Reference(body, slot)
    /\ body["VIDEO"] # None => Shows(body["VIDEO"], body["IMAGES"], body["VOICEOVER"])
    /\ body["PACKAGE"] # None =>
          body["VIDEO"] # None /\ Holds(body["PACKAGE"], body["IMAGES"], body["VOICEOVER"], body["VIDEO"])
    /\ body["IMAGES"] # None /\ body["IMAGES"].provider = "pexels" =>
          \A n, k \in Scene : body["IMAGES"].images[n] = body["IMAGES"].images[k] => n = k

\* The slot that the delivery s reads or writes.
Place(s) == IF NextStep(s.body) = "IMAGES" THEN ImageKey(s.at) ELSE <<NextStep(s.body), 0>>

\* The image pipeline: the scenes it has, those it has looked for, and the one
\* it is at.
Found(s, O, M) ==
    \A n \in Scene :
        /\ s.images[n] # None => s.images[n] = O[ImageKey(n)] /\ (s.via = "pexels" => Valid(n, O, M))
        /\ s.pc \in {"read", "check"} /\ n >= s.at => s.images[n] = None
        /\ s.pc \in {"make", "put", "describe"} /\ n = s.at => s.images[n] = None
        /\ s.pc \in {"put", "describe"} /\ s.via = "pexels" => s.images[n] # s.bytes
        /\ s.via = "pexels" /\ s.images[n] = None =>
              \/ s.pc \in {"read", "check"} /\ n >= s.at
              \/ s.pc = "describe" /\ n = s.at
              \/ ~Valid(n, O, M)

\* The delivery s at work, with V in the table.
Works(s, V, O, M) ==
    /\ s.body = V /\ V[NextStep(V)] = None
    /\ NextStep(V) # "IMAGES" /\ s.pc \notin {"put", "describe"} =>
          DOMAIN s.got = Slot /\ \A slot \in Slot : s.got[slot] # None => s.got[slot] = O[slot]
    /\ s.pc \in {"check", "describe"} => s.bytes = O[Place(s)]
    /\ s.pc \in {"put", "describe"} /\ NextStep(V) = "VIDEO" => Shows(s.bytes, V["IMAGES"], V["VOICEOVER"])
    /\ s.pc \in {"put", "describe"} /\ NextStep(V) = "PACKAGE" => Holds(s.bytes, V["IMAGES"], V["VOICEOVER"], V["VIDEO"])
    /\ NextStep(V) = "IMAGES" => s.pc \in Making /\ Found(s, O, M)

Active(s) == s.pc \notin {"idle", "loaded"}

Proper(s, V, O, M) == IF s.pc = "save" THEN Filed(s.body, O) ELSE Works(s, V, O, M)

Kept ==
    ~overlapped =>
        /\ \A v, w \in Worker : Active(worker[v]) /\ Active(worker[w]) => v = w
        /\ \A w \in Worker : worker[w].pc = "loaded" => worker[w].body["PACKAGE"] = None
        /\ \A w \in Worker : Active(worker[w]) => Proper(worker[w], version, object, metadata)
        /\ Filed(version, object)
        /\ Named(metadata)
        /\ Distinct(object, metadata)

\* The definitions above speak of no variable but spoken.
LEMMA Same ==
  ASSUME NEW s, NEW V, NEW O, NEW M, UNCHANGED spoken
  PROVE  /\ Filed(V, O) => Filed(V, O)'
         /\ Proper(s, V, O, M) => Proper(s, V, O, M)'
         /\ Named(M) => Named(M)'
<1>1. \A b, i, v : Shows(b, i, v) <=> Shows(b, i, v)'
  BY DEF Shows
<1>2. \A b, i, v, d : Holds(b, i, v, d) <=> Holds(b, i, v, d)'
  BY <1>1 DEF Holds
<1>3. \A V1, O1 : Filed(V1, O1) <=> Filed(V1, O1)'
  BY <1>1, <1>2 DEF Filed
<1>4. \A b : NextStep(b) = NextStep(b)'
  BY DEF NextStep
<1>5. Place(s) = Place(s)'
  BY <1>4 DEF Place
<1>6. Works(s, V, O, M) <=> Works(s, V, O, M)'
  BY <1>1, <1>2, <1>4, <1>5 DEF Works
<1>7. Named(M) <=> Named(M)'
  BY <1>1, <1>2 DEF Named
<1> QED
  BY <1>3, <1>6, <1>7 DEF Proper

\* The delivery w moves to s; if it writes, or takes the lease, no other is at
\* work.
LEMMA Turn ==
  ASSUME Kept, ~overlapped, DOMAIN worker = Worker,
         NEW w \in Worker, NEW s, worker' = [worker EXCEPT ![w] = s], UNCHANGED spoken,
         \A v \in Worker \ {w} : Active(worker[v]) =>
             ~Active(s) /\ version' = version /\ object' = object /\ metadata' = metadata,
         s.pc = "loaded" => s.body["PACKAGE"] = None,
         Active(s) => Proper(s, version', object', metadata'),
         Filed(version', object'), Named(metadata'), Distinct(object', metadata')
  PROVE  Kept'
<1>1. worker'[w] = s /\ \A v \in Worker \ {w} : worker'[v] = worker[v]
  OBVIOUS
<1>2. PICK V : V = version'
  OBVIOUS
<1>3. PICK O : O = object'
  OBVIOUS
<1>4. PICK M : M = metadata'
  OBVIOUS
<1>5. Filed(version, object)' /\ Named(metadata)'
  BY <1>2, <1>3, <1>4, Same
<1>6. Distinct(object, metadata)'
  BY DEF Distinct, Valid
<1>7. ASSUME NEW v \in Worker, Active(worker[v])' PROVE Proper(worker[v], version, object, metadata)'
  <2>1. PICK t : t = worker'[v]
    OBVIOUS
  <2>2. Active(t)
    BY <1>7, <2>1 DEF Active
  <2>3. Proper(t, V, O, M)
    <3>1. CASE v = w
      BY <1>1, <1>2, <1>3, <1>4, <2>1, <2>2, <3>1
    <3>2. CASE v # w
      <4>1. worker[v] = t /\ Active(worker[v])
        BY <1>1, <2>1, <2>2, <3>2
      <4>2. V = version /\ O = object /\ M = metadata
        BY <1>2, <1>3, <1>4, <3>2, <4>1
      <4> QED
        BY <4>1, <4>2 DEF Kept
    <3> QED
      BY <3>1, <3>2
  <2>4. Proper(t, V, O, M)'
    BY <2>3, Same
  <2> QED
    BY <1>2, <1>3, <1>4, <2>1, <2>4
<1>8. ASSUME NEW v \in Worker, NEW u \in Worker, Active(worker[v])', Active(worker[u])' PROVE v = u
  <2>1. Active(worker'[v]) /\ Active(worker'[u])
    BY <1>8 DEF Active
  <2> QED
    BY <1>1, <2>1 DEF Kept
<1>9. ASSUME NEW v \in Worker, worker'[v].pc = "loaded" PROVE worker'[v].body["PACKAGE"] = None
  BY <1>1, <1>9 DEF Kept
<1> QED
  BY <1>5, <1>6, <1>7, <1>8, <1>9 DEF Kept

\* What is known when deliveries do not overlap.
LEMMA Alone ==
  ASSUME Kept, ~overlapped
  PROVE  /\ Filed(version, object) /\ Named(metadata) /\ Distinct(object, metadata)
         /\ \A v, w \in Worker : Active(worker[v]) /\ Active(worker[w]) => v = w
         /\ \A w \in Worker : worker[w].pc = "loaded" => worker[w].body["PACKAGE"] = None
         /\ \A w \in Worker : Active(worker[w]) => Proper(worker[w], version, object, metadata)
  BY DEF Kept

\* A delivery that writes nothing moves on.
LEMMA TurnQuiet ==
  ASSUME Kept, ~overlapped, DOMAIN worker = Worker, NEW w \in Worker, Active(worker[w]),
         NEW s, worker' = [worker EXCEPT ![w] = s], UNCHANGED <<spoken, version, object, metadata>>,
         s.pc # "loaded", Active(s) => Proper(s, version, object, metadata)
  PROVE  Kept'
<1>1. version' = version /\ object' = object /\ metadata' = metadata /\ UNCHANGED spoken
  OBVIOUS
<1>2. \A v \in Worker \ {w} : Active(worker[v]) => v = w
  BY Alone
<1>3. Filed(version', object') /\ Named(metadata') /\ Distinct(object', metadata')
  BY <1>1, Alone
<1>4. Active(s) => Proper(s, version', object', metadata')
  BY <1>1
<1> QED
  BY <1>1, <1>2, <1>3, <1>4, Turn

LEMMA IdleIs == Idle.pc = "idle" /\ ~Active(Idle)
  BY IdleFine DEF Active

LEMMA InitKept == Init => Kept
<1> SUFFICES ASSUME Init PROVE Kept
  OBVIOUS
<1>1. \A w \in Worker : worker[w] = Idle
  BY DEF Init
<1>2. \A w \in Worker : ~Active(worker[w]) /\ worker[w].pc # "loaded"
  BY <1>1, IdleIs
<1>3. Filed(version, object)
  BY DEF Init, Filed, NoFiles, Steps, Slot, ImageKey, VoiceKey, VideoKey, PackageKey
<1>4. Named(metadata)
  BY DEF Init, Named
<1>5. Distinct(object, metadata)
  <2>1. \A n \in Scene : ImageKey(n) \in Slot
    BY DEF Slot
  <2> QED
    BY <2>1 DEF Init, Distinct, Valid
<1> QED
  BY <1>2, <1>3, <1>4, <1>5 DEF Kept

\* A delivery begins the pipeline of the body in the table.
LEMMA BeginProper ==
  ASSUME spoken \in BOOLEAN, NEW V, V[NextStep(V)] = None, NEW O, NEW M, NEW via
  PROVE  /\ Proper(Begin(V), V, O, M)
         /\ Proper([Begin(V) EXCEPT !.via = via], V, O, M)
<1>1. ASSUME NEW s, s.pc = "read", s.body = V, s.at = 1, s.images = NoImages, s.got = NoDownloads
      PROVE  Proper(s, V, O, M)
  <2>1. \A n \in Scene : s.images[n] = None /\ n >= s.at
    BY <1>1, Constants DEF NoImages, Scene
  <2>2. Found(s, O, M)
    BY <1>1, <2>1 DEF Found
  <2>3. DOMAIN s.got = Slot /\ \A slot \in Slot : s.got[slot] = None
    BY <1>1 DEF NoDownloads
  <2> QED
    BY <1>1, <2>2, <2>3 DEF Proper, Works, Making
<1> DEFINE b == Begin(V)
<1>2. /\ DOMAIN b = Fields /\ b.pc = "read" /\ b.body = V /\ b.at = 1 /\ b.images = NoImages
      /\ b.got = NoDownloads
  BY IdleFine DEF Begin, Fields, Idle
<1> HIDE DEF b
<1>3. Proper([b EXCEPT !.via = via], V, O, M)
  <2> DEFINE s == [b EXCEPT !.via = via]
  <2>1. s.pc = "read" /\ s.body = V /\ s.at = 1 /\ s.images = NoImages /\ s.got = NoDownloads
    BY <1>2 DEF Fields
  <2> HIDE DEF s
  <2>2. Proper(s, V, O, M)
    BY <1>1, <2>1
  <2> QED
    BY <2>2 DEF s
<1>4. Proper(b, V, O, M)
  BY <1>1, <1>2
<1> QED
  BY <1>3, <1>4 DEF b

LEMMA LoadKept == ASSUME IInv, Kept, ~overlapped', NEW w \in Worker, Load(w) PROVE Kept'
<1>1. ~overlapped /\ DOMAIN worker = Worker /\ UNCHANGED <<spoken, version, object, metadata>>
  BY Given DEF Load, fixed, store, Workers
<1>2. PICK s : s = [Idle EXCEPT !.pc = "loaded", !.body = version]
  OBVIOUS
<1>3. worker' = [worker EXCEPT ![w] = s] /\ version["PACKAGE"] = None
  BY <1>2 DEF Load
<1>4. s.pc = "loaded" /\ s.body = version /\ ~Active(s)
  BY <1>2, IdleFine DEF Fields, Active
<1>5. version' = version /\ object' = object /\ metadata' = metadata /\ UNCHANGED spoken
  BY <1>1
<1>6. Filed(version', object') /\ Named(metadata') /\ Distinct(object', metadata')
  BY <1>1, <1>5, Alone
<1> QED
  BY <1>1, <1>3, <1>4, <1>5, <1>6, Turn

\* The lease is taken when no other is at work, for the body in the table.
LEMMA TakeKept == ASSUME IInv, Kept, ~overlapped', NEW w \in Worker, Take(w) PROVE Kept'
<1>1. /\ ~overlapped /\ worker[w].body = version
      /\ \A v \in Worker : worker[v].pc \in {"idle", "loaded"}
  BY DEF Take
<1>2. /\ DOMAIN worker = Worker /\ spoken \in BOOLEAN /\ Sound(version)
      /\ version' = version /\ object' = object /\ metadata' = metadata /\ UNCHANGED spoken
  BY Given DEF Take, fixed, store, Workers
<1>3. PICK s : s = Begin(version)
  OBVIOUS
<1>4. worker' = [worker EXCEPT ![w] = s]
  BY <1>1, <1>3 DEF Take
<1>5. version[NextStep(version)] = None
  <2>1. version["PACKAGE"] = None
    BY <1>1, Alone DEF Take
  <2> QED
    BY <1>2, <2>1, NextStepIs DEF NextStep
<1>6. s.pc = "read"
  BY <1>3, IdleFine DEF Begin, Fields
<1>7. Proper(s, version', object', metadata')
  BY <1>2, <1>3, <1>5, BeginProper
<1>8. Filed(version', object') /\ Named(metadata') /\ Distinct(object', metadata')
  BY <1>1, <1>2, Alone
<1>9. \A v \in Worker \ {w} : ~Active(worker[v])
  BY <1>1 DEF Active
<1> QED
  BY <1>1, <1>2, <1>4, <1>6, <1>7, <1>8, <1>9, Turn

\* What is saved is what is under the keys.
LEMMA SaveKept == ASSUME IInv, Kept, ~overlapped', NEW w \in Worker, Save(w) PROVE Kept'
<1>1. /\ ~overlapped /\ DOMAIN worker = Worker /\ spoken \in BOOLEAN /\ Active(worker[w])
      /\ object' = object /\ metadata' = metadata /\ UNCHANGED spoken
  BY Given DEF Save, fixed, store, Workers, Active
<1>2. PICK V : V = worker[w].body
  OBVIOUS
<1>3. Filed(V, object)
  BY <1>1, <1>2, Alone DEF Save, Proper
<1>4. version' = V
  BY <1>2 DEF Save
<1>5. Filed(version', object') /\ Named(metadata') /\ Distinct(object', metadata')
  BY <1>1, <1>3, <1>4, Alone
<1>6. \A v \in Worker \ {w} : ~Active(worker[v])
  BY <1>1, Alone
<1>7. CASE V["PACKAGE"] # None
  <2>1. PICK s : s = Idle
    OBVIOUS
  <2>2. worker' = [worker EXCEPT ![w] = s] /\ ~Active(s) /\ s.pc # "loaded"
    BY <1>2, <1>7, <2>1, IdleIs DEF Save
  <2> QED
    BY <1>1, <1>5, <1>6, <2>2, Turn
<1>8. CASE V["PACKAGE"] = None
  <2>1. PICK s : s = Begin(V)
    OBVIOUS
  <2>2. worker' = [worker EXCEPT ![w] = s]
    BY <1>2, <1>8, <2>1 DEF Save
  <2>3. V[NextStep(V)] = None
    BY <1>1, <1>8, NextStepIs DEF NextStep
  <2>4. s.pc = "read"
    BY <2>1, IdleFine DEF Begin, Fields
  <2>5. Proper(s, version', object', metadata')
    BY <1>1, <1>4, <2>1, <2>3, BeginProper
  <2> QED
    BY <1>1, <1>5, <1>6, <2>2, <2>4, <2>5, Turn
<1> QED
  BY <1>7, <1>8

LEMMA EndKept ==
  ASSUME IInv, Kept, ~overlapped', NEW w \in Worker, Lost(w) \/ Abandon(w) \/ RefuseVideo(w)
  PROVE  Kept'
<1>1. /\ ~overlapped /\ DOMAIN worker = Worker /\ UNCHANGED spoken
      /\ version' = version /\ object' = object /\ metadata' = metadata
  BY Given DEF Lost, Abandon, RefuseVideo, fixed, store, Workers
<1>2. PICK s : s = Idle
  OBVIOUS
<1>3. worker' = [worker EXCEPT ![w] = s] /\ ~Active(s) /\ s.pc # "loaded"
  BY <1>2, IdleIs DEF Lost, Abandon, RefuseVideo
<1>4. Filed(version', object') /\ Named(metadata') /\ Distinct(object', metadata')
  BY <1>1, Alone
<1> QED
  BY <1>1, <1>3, <1>4, Turn

LEMMA SlotIs ==
  /\ \A n \in Scene : ImageKey(n) \in Slot /\ ImageKey(n)[1] = "IMAGES" /\ ImageKey(n)[2] = n
  /\ \A slot \in Slot :
        /\ slot[1] \in Steps
        /\ slot[1] = "IMAGES" => slot[2] \in Scene /\ slot = ImageKey(slot[2])
        /\ slot[1] # "IMAGES" => slot = <<slot[1], 0>>
  /\ \A step \in Steps \ {"IMAGES"} : <<step, 0>> \in Slot /\ <<step, 0>>[1] = step
  /\ \A n, k \in Scene : ImageKey(n) = ImageKey(k) => n = k
<1>1. \A n \in Scene : ImageKey(n) \in Slot /\ ImageKey(n)[1] = "IMAGES" /\ ImageKey(n)[2] = n
  BY DEF ImageKey, Slot
<1>2. \A step \in Steps \ {"IMAGES"} : <<step, 0>> \in Slot /\ <<step, 0>>[1] = step
  BY DEF Steps, Slot, VoiceKey, VideoKey, PackageKey
<1>3. ASSUME NEW slot \in Slot
      PROVE  /\ slot[1] \in Steps
             /\ slot[1] = "IMAGES" => slot[2] \in Scene /\ slot = ImageKey(slot[2])
             /\ slot[1] # "IMAGES" => slot = <<slot[1], 0>>
  <2>1. CASE \E n \in Scene : slot = ImageKey(n)
    <3>1. PICK n \in Scene : slot = ImageKey(n)
      BY <2>1
    <3>2. slot[1] = "IMAGES" /\ slot[2] = n
      BY <1>1, <3>1
    <3> QED
      BY <3>1, <3>2 DEF Steps
  <2>2. CASE slot \in {VoiceKey, VideoKey, PackageKey}
    BY <2>2 DEF VoiceKey, VideoKey, PackageKey, Steps
  <2> QED
    BY <1>3, <2>1, <2>2 DEF Slot
<1> QED
  BY <1>1, <1>2, <1>3

\* No image and no description is None.
LEMMA NoneIsNone ==
  /\ None \notin ImageBytes
  /\ \A b \in ImageBytes : Described(ImageFingerprint("pexels"), b) # None
<1>1. \A b \in ImageBytes :
        Described(ImageFingerprint("pexels"), b) \in [fingerprint : {<<"images", "pexels">>}, checksum : ImageBytes]
  BY DEF Described, ImageFingerprint
<1> QED
  BY <1>1, AssetPipelinesAssumption

\* A delivery at work has the body in the table, and its step is open.
LEMMA AtWork ==
  ASSUME IInv, Kept, ~overlapped, NEW w \in Worker, Active(worker[w]), worker[w].pc # "save"
  PROVE  /\ DOMAIN worker = Worker /\ DOMAIN object = Slot /\ DOMAIN metadata = Slot
         /\ spoken \in BOOLEAN /\ Sound(version)
         /\ worker[w].body = version /\ version[NextStep(version)] = None
         /\ Works(worker[w], version, object, metadata)
         /\ \A v \in Worker \ {w} : ~Active(worker[v])
<1>1. Works(worker[w], version, object, metadata) /\ \A v \in Worker \ {w} : ~Active(worker[v])
  BY Alone DEF Proper
<1> QED
  BY <1>1, Given DEF Works, Workers, Objects, Labelled

\* The file of the next step completes a body.
LEMMA FiledAdd ==
  ASSUME spoken \in BOOLEAN, NEW V, Sound(V), V[NextStep(V)] = None, NEW O, Filed(V, O), NEW reference,
         \A slot \in Slot : slot[1] = NextStep(V) =>
             O[slot] = (IF slot[1] = "IMAGES" THEN reference.images[slot[2]] ELSE reference),
         NextStep(V) = "VIDEO" => Shows(reference, V["IMAGES"], V["VOICEOVER"]),
         NextStep(V) = "PACKAGE" => Holds(reference, V["IMAGES"], V["VOICEOVER"], V["VIDEO"]),
         NextStep(V) = "IMAGES" /\ reference.provider = "pexels" =>
             \A n, k \in Scene : reference.images[n] = reference.images[k] => n = k
  PROVE  Filed([V EXCEPT ![NextStep(V)] = reference], O)
<1> DEFINE step == NextStep(V)
           b == [V EXCEPT ![step] = reference]
<1>1. step \in Steps /\ DOMAIN V = Steps
  BY NextStepIs DEF Sound
<1>2. DOMAIN b = Steps /\ b[step] = reference /\ \A s \in Steps \ {step} : b[s] = V[s]
  BY <1>1
<1>3. b = [s \in Steps |-> b[s]]
  BY <1>1
<1>4. /\ step = "IMAGES" => V["VIDEO"] = None /\ V["PACKAGE"] = None
      /\ step = "VOICEOVER" => V["VIDEO"] = None /\ V["PACKAGE"] = None
      /\ step = "VIDEO" => V["VIDEO"] = None /\ V["PACKAGE"] = None
      /\ step = "PACKAGE" => V["VIDEO"] # None
  BY NextStepIs DEF Sound, Filed, NextStep
<1> HIDE DEF b
<1>5. ASSUME NEW slot \in Slot, b[slot[1]] # None PROVE O[slot] = Reference(b, slot)
  <2>1. CASE slot[1] = step
    BY <1>2, <2>1 DEF Reference
  <2>2. CASE slot[1] # step
    <3>1. slot[1] \in Steps /\ b[slot[1]] = V[slot[1]]
      BY <1>2, <2>2, SlotIs
    <3>2. Reference(b, slot) = Reference(V, slot)
      BY <3>1 DEF Reference
    <3> QED
      BY <1>5, <3>1, <3>2 DEF Filed
  <2> QED
    BY <2>1, <2>2
<1> HIDE DEF step
<1>6. CASE step = "IMAGES"
  <2>1. b["IMAGES"] = reference /\ b["VIDEO"] = None /\ b["PACKAGE"] = None
    BY <1>2, <1>4, <1>6 DEF Steps
  <2>2. Filed(b, O)
    BY <1>3, <1>5, <1>6, <2>1 DEF Filed, step
  <2> QED
    BY <2>2 DEF b, step
<1>7. CASE step = "VOICEOVER"
  <2>1. b["IMAGES"] = V["IMAGES"] /\ b["VIDEO"] = None /\ b["PACKAGE"] = None
    BY <1>2, <1>4, <1>7 DEF Steps
  <2>2. Filed(b, O)
    BY <1>3, <1>5, <2>1 DEF Filed
  <2> QED
    BY <2>2 DEF b, step
<1>8. CASE step = "VIDEO"
  <2>1. /\ b["IMAGES"] = V["IMAGES"] /\ b["VOICEOVER"] = V["VOICEOVER"]
        /\ b["VIDEO"] = reference /\ b["PACKAGE"] = None
    BY <1>2, <1>4, <1>8 DEF Steps
  <2>2. Filed(b, O)
    BY <1>3, <1>5, <1>8, <2>1 DEF Filed, step
  <2> QED
    BY <2>2 DEF b, step
<1>9. CASE step = "PACKAGE"
  <2>1. /\ b["IMAGES"] = V["IMAGES"] /\ b["VOICEOVER"] = V["VOICEOVER"]
        /\ b["VIDEO"] = V["VIDEO"] /\ b["PACKAGE"] = reference
    BY <1>2, <1>4, <1>9 DEF Steps
  <2>2. Filed(b, O)
    BY <1>3, <1>4, <1>5, <1>9, <2>1 DEF Filed, step
  <2> QED
    BY <2>2 DEF b, step
<1> QED
  BY <1>1, <1>6, <1>7, <1>8, <1>9 DEF Steps

\* The file of a step that is open can be replaced.
LEMMA FiledPut ==
  ASSUME NEW V, NEW O, DOMAIN O = Slot, Filed(V, O), NEW slot \in Slot, V[slot[1]] = None, NEW bytes
  PROVE  Filed(V, [O EXCEPT ![slot] = bytes])
<1> DEFINE P == [O EXCEPT ![slot] = bytes]
<1>1. \A k \in Slot : k # slot => P[k] = O[k]
  OBVIOUS
<1> HIDE DEF P
<1>2. \A k \in Slot : V[k[1]] # None => P[k] = Reference(V, k)
  BY <1>1 DEF Filed
<1>3. Filed(V, P)
  BY <1>2 DEF Filed
<1> QED
  BY <1>3 DEF P

\* The next place, in fields.
LEMMA GotoIs ==
  ASSUME Workers, NEW w \in Worker, NEW pc, NEW bytes, Goto(w, pc, bytes)
  PROVE  \E s : /\ worker' = [worker EXCEPT ![w] = s] /\ s.pc = pc /\ s.bytes = bytes
                /\ s.body = worker[w].body /\ s.at = worker[w].at /\ s.via = worker[w].via
                /\ s.images = worker[w].images /\ s.got = worker[w].got
<1> DEFINE s == [worker[w] EXCEPT !.pc = pc, !.bytes = bytes]
<1>1. Fine(worker[w])
  BY DEF Workers
<1>2. /\ s.pc = pc /\ s.bytes = bytes /\ s.body = worker[w].body /\ s.at = worker[w].at
      /\ s.via = worker[w].via /\ s.images = worker[w].images /\ s.got = worker[w].got
  BY <1>1 DEF Fine, Fields
<1>3. worker' = [worker EXCEPT ![w] = s]
  BY DEF Goto
<1> QED
  BY <1>2, <1>3

LEMMA ReturnIs ==
  ASSUME Workers, NEW w \in Worker, NEW reference, Return(w, reference)
  PROVE  \E s : /\ worker' = [worker EXCEPT ![w] = s] /\ s.pc = "save"
                /\ s.body = [worker[w].body EXCEPT ![NextStep(worker[w].body)] = reference]
<1> DEFINE b == [worker[w].body EXCEPT ![NextStep(worker[w].body)] = reference]
           s == [Idle EXCEPT !.pc = "save", !.body = b]
<1>1. worker' = [worker EXCEPT ![w] = s]
  BY DEF Return
<1> HIDE DEF b
<1>2. s.pc = "save" /\ s.body = b
  BY IdleFine DEF Fields
<1> QED
  BY <1>1, <1>2 DEF b

LEMMA Order == \A n, k \in Scene : (n >= k <=> n > k \/ n = k) /\ (n >= k + 1 <=> n > k) /\ ~(k > k)
  BY Constants DEF Scene

\* A scene is settled: what the delivery has is under the keys, and what it has
\* passed without finding is not there to be found.
LEMMA SettleKept ==
  ASSUME IInv, Kept, ~overlapped, NEW w \in Worker, NEW images, Settle(w, images),
         UNCHANGED <<spoken, version, object>>, Named(metadata'), Distinct(object, metadata'),
         worker[w].pc \in {"read", "check", "describe"}, NextStep(worker[w].body) = "IMAGES",
         images \in [Scene -> ImageBytes \cup {None}],
         \A n \in Scene : images[n] # None =>
             images[n] = object[ImageKey(n)] /\ (worker[w].via = "pexels" => Valid(n, object, metadata')),
         \A n \in Scene : images[n] = None /\ worker[w].via = "pexels" =>
             (worker[w].pc # "describe" /\ n > worker[w].at) \/ ~Valid(n, object, metadata'),
         worker[w].pc # "describe" => \A n \in Scene : n > worker[w].at => images[n] = None
  PROVE  Kept'
<1> DEFINE t == worker[w]
           M == metadata'
           Go(pc, at) == [worker[w] EXCEPT !.pc = pc, !.at = at, !.images = images, !.bytes = None]
<1>1. Fine(t) /\ Active(t) /\ t.at \in Scene /\ Scene \subseteq Nat
  BY Given, Constants DEF Active, Fine, Scene
<1>2. /\ DOMAIN worker = Worker /\ DOMAIN object = Slot /\ spoken \in BOOLEAN /\ Sound(version)
      /\ t.body = version /\ version[NextStep(version)] = None
      /\ \A v \in Worker \ {w} : ~Active(worker[v])
  BY <1>1, AtWork
<1>3. ASSUME NEW s, worker' = [worker EXCEPT ![w] = s], s.pc # "loaded", Proper(s, version, object, metadata')
      PROVE  Kept'
  <2>1. version' = version /\ object' = object /\ UNCHANGED spoken
    OBVIOUS
  <2>2. Proper(s, version', object', metadata')
    BY <1>3, <2>1
  <2>3. Filed(version', object') /\ Named(metadata') /\ Distinct(object', metadata')
    BY <2>1, Alone
  <2> QED
    BY <1>2, <1>3, <2>1, <2>2, <2>3, Turn
<1>4. ASSUME NEW pc, NEW at
      PROVE  /\ Go(pc, at).pc = pc /\ Go(pc, at).at = at /\ Go(pc, at).images = images
             /\ Go(pc, at).body = version /\ Go(pc, at).via = t.via
  BY <1>1, <1>2 DEF Fine, Fields
<1>5. CASE t.pc # "describe" /\ t.at < SceneCount
  <2>1. PICK s : s = Go("read", t.at + 1)
    OBVIOUS
  <2>2. worker' = [worker EXCEPT ![w] = s]
    BY <1>5, <2>1 DEF Settle
  <2>3. s.pc = "read" /\ s.at = t.at + 1 /\ s.images = images /\ s.body = version /\ s.via = t.via
    BY <1>4, <2>1
  <2>4. \A n \in Scene : n >= s.at <=> n > t.at
    <3>1. \A n \in Scene : n >= t.at + 1 <=> n > t.at
      BY <1>1, Order
    <3> QED
      BY <2>3, <3>1
  <2>5. Found(s, object, metadata')
    BY <1>5, <2>3, <2>4 DEF Found
  <2>6. Proper(s, version, object, metadata')
    BY <1>2, <2>3, <2>5 DEF Proper, Works, Making
  <2> QED
    BY <1>3, <2>2, <2>3, <2>6
<1>6. ASSUME ~(t.pc # "describe" /\ t.at < SceneCount), NEW n \in Scene
      PROVE  ~(t.pc # "describe" /\ n > t.at)
  BY <1>1, <1>6, Constants DEF Scene
<1>7. CASE ~(t.pc # "describe" /\ t.at < SceneCount) /\ Missing(images) = {}
  <2> DEFINE reference == ImageReferences(w, images)
  <2>1. Return(w, reference)
    BY <1>7 DEF Settle
  <2>2. reference.images = images /\ reference.provider = t.via
    BY DEF ImageReferences
  <2> HIDE DEF reference
  <2>3. PICK s : worker' = [worker EXCEPT ![w] = s] /\ s.pc = "save" /\ s.body = [t.body EXCEPT ![NextStep(t.body)] = reference]
    BY <2>1, Given, ReturnIs
  <2>4. \A n \in Scene : images[n] # None
    BY <1>7 DEF Missing
  <2>5. \A slot \in Slot : slot[1] = NextStep(version) =>
          object[slot] = (IF slot[1] = "IMAGES" THEN reference.images[slot[2]] ELSE reference)
    BY <1>2, <2>2, <2>4, SlotIs
  <2>6. reference.provider = "pexels" => \A n, k \in Scene : reference.images[n] = reference.images[k] => n = k
    BY <2>2, <2>4 DEF Distinct
  <2>7. Filed([version EXCEPT ![NextStep(version)] = reference], object)
    BY <1>2, <2>5, <2>6, Alone, FiledAdd
  <2> QED
    BY <1>2, <1>3, <2>3, <2>7 DEF Proper
<1>8. CASE ~(t.pc # "describe" /\ t.at < SceneCount) /\ Missing(images) # {}
  <2>1. PICK s : s = Go("make", First(Missing(images)))
    OBVIOUS
  <2>2. worker' = [worker EXCEPT ![w] = s]
    BY <1>8, <2>1 DEF Settle
  <2>3. First(Missing(images)) \in Missing(images)
    BY <1>8, FirstIs DEF Missing
  <2>4. s.pc = "make" /\ images[s.at] = None /\ s.images = images /\ s.body = version /\ s.via = t.via
    BY <1>4, <2>1, <2>3 DEF Missing
  <2>5. Found(s, object, metadata')
    BY <1>6, <1>8, <2>4 DEF Found
  <2>6. Proper(s, version, object, metadata')
    BY <1>2, <2>4, <2>5 DEF Proper, Works, Making
  <2> QED
    BY <1>3, <2>2, <2>4, <2>6
<1> QED
  BY <1>5, <1>7, <1>8

LEMMA ReadImageKept == ASSUME IInv, Kept, ~overlapped', NEW w \in Worker, ReadImage(w) PROVE Kept'
<1> DEFINE t == worker[w]
           bytes == object[ImageKey(t.at)]
<1>1. /\ ~overlapped /\ t.pc = "read" /\ Active(t) /\ NextStep(t.body) = "IMAGES"
      /\ UNCHANGED <<spoken, version, object, metadata>>
  BY DEF ReadImage, At, Active, fixed, store
<1>2. t.at \in Scene /\ t.images \in [Scene -> ImageBytes \cup {None}] /\ Scene \subseteq Nat
  BY Given, Constants DEF Fine, Scene
<1>3. /\ Works(t, version, object, metadata) /\ t.body = version /\ version[NextStep(version)] = None
      /\ DOMAIN worker = Worker
  BY <1>1, AtWork
<1>4. Found(t, object, metadata)
  BY <1>1, <1>3 DEF Works
<1>5. CASE bytes = None
  <2>1. Settle(w, t.images)
    BY <1>5 DEF ReadImage
  <2>2. ~Valid(t.at, object, metadata)
    BY <1>5 DEF Valid
  <2>3. metadata' = metadata
    BY <1>1
  <2>4. \A n \in Scene : t.images[n] = None /\ t.via = "pexels" => n > t.at \/ ~Valid(n, object, metadata)
    <3>1. \A n \in Scene : n >= t.at <=> n > t.at \/ n = t.at
      BY <1>2, Order
    <3> QED
      BY <1>1, <1>4, <2>2, <3>1 DEF Found
  <2>5. \A n \in Scene : n > t.at => t.images[n] = None
    <3>1. \A n \in Scene : n > t.at => n >= t.at
      BY <1>2, Order
    <3> QED
      BY <1>1, <1>4, <3>1 DEF Found
  <2>6. \A n \in Scene : t.images[n] # None =>
          t.images[n] = object[ImageKey(n)] /\ (t.via = "pexels" => Valid(n, object, metadata))
    BY <1>4 DEF Found
  <2> QED
    BY <1>1, <1>2, <2>1, <2>3, <2>4, <2>5, <2>6, Alone, SettleKept
<1>6. CASE bytes # None
  <2>1. Goto(w, "check", bytes)
    BY <1>6 DEF ReadImage
  <2>2. PICK s : /\ worker' = [worker EXCEPT ![w] = s] /\ s.pc = "check" /\ s.bytes = bytes
                 /\ s.body = t.body /\ s.at = t.at /\ s.via = t.via /\ s.images = t.images /\ s.got = t.got
    BY <2>1, Given, GotoIs
  <2>3. Found(s, object, metadata)
    BY <1>1, <1>4, <2>2 DEF Found
  <2>4. s.bytes = object[Place(s)]
    BY <1>1, <2>2 DEF Place
  <2>5. Proper(s, version, object, metadata)
    BY <1>1, <1>3, <2>2, <2>3, <2>4 DEF Proper, Works, Making
  <2> QED
    BY <1>1, <1>3, <2>2, <2>5, TurnQuiet
<1> QED
  BY <1>5, <1>6

LEMMA CheckImageKept == ASSUME IInv, Kept, ~overlapped', NEW w \in Worker, CheckImage(w) PROVE Kept'
<1> DEFINE t == worker[w]
           hit == IsHit(w, ImageKey(t.at), ImageFingerprint(t.via))
           images == IF hit THEN [t.images EXCEPT ![t.at] = t.bytes] ELSE t.images
<1>1. /\ ~overlapped /\ t.pc = "check" /\ Active(t) /\ NextStep(t.body) = "IMAGES"
      /\ UNCHANGED <<spoken, version, object>> /\ metadata' = metadata /\ Settle(w, images)
  BY DEF CheckImage, At, Active, fixed, store
<1>2. /\ t.at \in Scene /\ t.images \in [Scene -> ImageBytes \cup {None}] /\ t.bytes \in ImageBytes
      /\ Scene \subseteq Nat
  BY <1>1, Given, Constants DEF Fine, Scene
<1>3. Works(t, version, object, metadata) /\ t.body = version
  BY <1>1, AtWork
<1>4. Found(t, object, metadata) /\ t.bytes = object[ImageKey(t.at)]
  BY <1>1, <1>3 DEF Works, Place
<1>5. /\ \A n \in Scene : n >= t.at <=> n > t.at \/ n = t.at
      /\ ~(t.at > t.at)
  BY <1>2, Order
<1>6. t.via = "pexels" => (hit <=> Valid(t.at, object, metadata))
  BY <1>2, <1>4, NoneIsNone DEF IsHit, Valid
<1>7. /\ images \in [Scene -> ImageBytes \cup {None}]
      /\ \A n \in Scene \ {t.at} : images[n] = t.images[n]
      /\ hit => images[t.at] = t.bytes
      /\ ~hit => images[t.at] = None
  BY <1>1, <1>2, <1>4, <1>5 DEF Found
<1> HIDE DEF hit, images
<1>8. \A n \in Scene : images[n] # None =>
        images[n] = object[ImageKey(n)] /\ (t.via = "pexels" => Valid(n, object, metadata'))
  BY <1>1, <1>2, <1>4, <1>6, <1>7 DEF Found
<1>9. \A n \in Scene : images[n] = None /\ t.via = "pexels" => n > t.at \/ ~Valid(n, object, metadata')
  BY <1>1, <1>2, <1>4, <1>5, <1>6, <1>7, NoneIsNone DEF Found
<1>10. \A n \in Scene : n > t.at => images[n] = None
  BY <1>1, <1>4, <1>5, <1>7 DEF Found
<1>11. Named(metadata') /\ Distinct(object, metadata')
  BY <1>1, Alone
<1> QED
  BY <1>1, <1>7, <1>8, <1>9, <1>10, <1>11, SettleKept

\* What the stock pipeline puts is none of the photos it has.
LEMMA MakeImageKept ==
  ASSUME IInv, Rest, Kept, ~overlapped', NEW w \in Worker, GenerateImage(w) \/ ChoosePhoto(w)
  PROVE  Kept'
<1> DEFINE t == worker[w]
<1>1. /\ ~overlapped /\ t.pc = "make" /\ Active(t) /\ NextStep(t.body) = "IMAGES"
      /\ UNCHANGED <<spoken, version, object, metadata>>
  BY DEF GenerateImage, ChoosePhoto, At, Active, fixed, store
<1>2. Works(t, version, object, metadata) /\ DOMAIN worker = Worker
  BY <1>1, AtWork
<1>3. Found(t, object, metadata)
  BY <1>1, <1>2 DEF Works
<1>4. PICK bytes : Goto(w, "put", bytes) /\ (t.via = "pexels" => \A n \in Scene : t.images[n] # bytes)
  <2>1. CASE GenerateImage(w)
    BY <2>1 DEF GenerateImage
  <2>2. CASE ChoosePhoto(w)
    <3>1. PICK photo \in Photo : photo \notin Used(w) /\ Goto(w, "put", Stock(photo))
      BY <2>2 DEF ChoosePhoto
    <3>2. Stock(photo).id = photo /\ Stock(photo) # None
      BY <3>1, NoneIsNone DEF Stock, ImageBytes
    <3>3. \A n \in Scene : t.images[n] # Stock(photo)
      BY <3>1, <3>2 DEF Used, Missing
    <3> QED
      BY <3>1, <3>3
  <2> QED
    BY <2>1, <2>2
<1>5. PICK s : /\ worker' = [worker EXCEPT ![w] = s] /\ s.pc = "put" /\ s.bytes = bytes
               /\ s.body = t.body /\ s.at = t.at /\ s.via = t.via /\ s.images = t.images /\ s.got = t.got
  BY <1>4, Given, GotoIs
<1>6. Found(s, object, metadata)
  BY <1>1, <1>3, <1>4, <1>5 DEF Found
<1>7. Proper(s, version, object, metadata)
  BY <1>1, <1>2, <1>5, <1>6 DEF Proper, Works, Making
<1> QED
  BY <1>1, <1>2, <1>5, <1>7, TurnQuiet

LEMMA FallBackKept == ASSUME IInv, Kept, ~overlapped', NEW w \in Worker, FallBack(w) PROVE Kept'
<1>1. /\ ~overlapped /\ Active(worker[w]) /\ worker[w].pc # "save"
      /\ UNCHANGED <<spoken, version, object, metadata>>
  BY DEF FallBack, At, Active, fixed, store
<1>2. /\ worker[w].body = version /\ version[NextStep(version)] = None
      /\ DOMAIN worker = Worker /\ spoken \in BOOLEAN
  BY <1>1, AtWork
<1>3. PICK s : s = [Begin(version) EXCEPT !.via = "pexels"]
  OBVIOUS
<1>4. worker' = [worker EXCEPT ![w] = s]
  BY <1>2, <1>3 DEF FallBack
<1>5. s.pc = "read"
  BY <1>3, IdleFine DEF Begin, Fields
<1>6. Proper(s, version, object, metadata)
  BY <1>2, <1>3, BeginProper
<1> QED
  BY <1>1, <1>2, <1>4, <1>5, <1>6, TurnQuiet

\* A generated file is never described as a stock photo.
LEMMA StockIsStock ==
  ASSUME Labelled, NEW n \in Scene, NEW O, Valid(n, O, metadata), O[ImageKey(n)] \in ImageBytes
  PROVE  O[ImageKey(n)].by = "pexels"
<1>1. ImageKey(n) \in Slot /\ metadata[ImageKey(n)] # None
  BY SlotIs, NoneIsNone DEF Valid
<1>2. /\ metadata[ImageKey(n)].fingerprint = ImageFingerprint("pexels")
      /\ metadata[ImageKey(n)].checksum = O[ImageKey(n)]
  BY DEF Valid, Described
<1>3. ImageFingerprint("pexels")[1] = "images" /\ ImageFingerprint("pexels")[2] = "pexels"
  BY DEF ImageFingerprint
<1> QED
  BY <1>1, <1>2, <1>3 DEF Labelled

\* The description of the file before, if it is still there, makes the new one
\* no photo that is found twice.
LEMMA PutImageKept == ASSUME IInv, Kept, ~overlapped', NEW w \in Worker, PutImage(w) PROVE Kept'
<1> DEFINE t == worker[w]
<1>1. /\ ~overlapped /\ t.pc = "put" /\ Active(t) /\ NextStep(t.body) = "IMAGES"
      /\ UNCHANGED spoken /\ version' = version /\ metadata' = metadata
      /\ object' = [object EXCEPT ![ImageKey(t.at)] = t.bytes] /\ Goto(w, "describe", t.bytes)
  BY DEF PutImage, PutObject, At, Active, fixed
<1>2. t.at \in Scene /\ t.bytes \in ImageBytes /\ t.bytes.by = t.via
  BY <1>1, Given DEF Fine
<1>3. /\ Works(t, version, object, metadata) /\ t.body = version /\ version[NextStep(version)] = None
      /\ DOMAIN worker = Worker /\ DOMAIN object = Slot
      /\ \A v \in Worker \ {w} : ~Active(worker[v])
  BY <1>1, AtWork
<1>4. Found(t, object, metadata)
  BY <1>1, <1>3 DEF Works
<1>5. PICK s : /\ worker' = [worker EXCEPT ![w] = s] /\ s.pc = "describe" /\ s.bytes = t.bytes
               /\ s.body = t.body /\ s.at = t.at /\ s.via = t.via /\ s.images = t.images /\ s.got = t.got
  BY <1>1, Given, GotoIs
<1>6. object'[ImageKey(t.at)] = t.bytes /\ \A n \in Scene \ {t.at} : object'[ImageKey(n)] = object[ImageKey(n)]
  BY <1>1, <1>2, <1>3, SlotIs
<1>7. \A n \in Scene \ {t.at} : Valid(n, object', metadata) <=> Valid(n, object, metadata)
  BY <1>6 DEF Valid
<1>8. t.images[t.at] = None
  BY <1>1, <1>2, <1>4 DEF Found
<1>9. Found(s, object', metadata')
  BY <1>1, <1>2, <1>4, <1>5, <1>6, <1>7, <1>8 DEF Found
<1>10. s.bytes = object'[Place(s)]
  BY <1>1, <1>5, <1>6 DEF Place
<1>11. Proper(s, version', object', metadata')
  BY <1>1, <1>3, <1>5, <1>9, <1>10 DEF Proper, Works, Making
<1>12. Distinct(object', metadata')
  <2>1. Distinct(object, metadata)
    BY <1>1, Alone
  <2>2. ASSUME NEW k \in Scene \ {t.at}, Valid(t.at, object', metadata), Valid(k, object', metadata)
        PROVE  object'[ImageKey(k)] # t.bytes
    <3>1. t.via = "pexels"
      BY <1>2, <1>6, <2>2, Given, StockIsStock
    <3>2. Valid(k, object, metadata)
      BY <1>7, <2>2
    <3>3. t.images[k] = object[ImageKey(k)] /\ t.images[k] # t.bytes
      BY <1>1, <1>4, <3>1, <3>2 DEF Found
    <3> QED
      BY <1>6, <3>3
  <2>3. ASSUME NEW n \in Scene, NEW k \in Scene, Valid(n, object', metadata), Valid(k, object', metadata),
               object'[ImageKey(n)] = object'[ImageKey(k)]
        PROVE  n = k
    BY <1>6, <1>7, <2>1, <2>2, <2>3 DEF Distinct
  <2> QED
    BY <1>1, <2>3 DEF Distinct
<1>13. Filed(version', object')
  <2>1. Filed(version, object)
    BY <1>1, Alone
  <2>2. ImageKey(t.at) \in Slot /\ version[ImageKey(t.at)[1]] = None
    BY <1>1, <1>2, <1>3, SlotIs
  <2> QED
    BY <1>1, <1>3, <2>1, <2>2, FiledPut
<1>14. Named(metadata')
  BY <1>1, Alone
<1> QED
  BY <1>1, <1>3, <1>5, <1>11, <1>12, <1>13, <1>14, Turn

LEMMA DescribeImageKept == ASSUME IInv, Kept, ~overlapped', NEW w \in Worker, DescribeImage(w) PROVE Kept'
<1> DEFINE t == worker[w]
           images == [t.images EXCEPT ![t.at] = t.bytes]
<1>1. /\ ~overlapped /\ t.pc = "describe" /\ Active(t) /\ NextStep(t.body) = "IMAGES"
      /\ UNCHANGED <<spoken, version, object>> /\ object' = object /\ Settle(w, images)
      /\ metadata' = [metadata EXCEPT ![ImageKey(t.at)] = Described(ImageFingerprint(t.via), t.bytes)]
  BY DEF DescribeImage, PutMetadata, At, Active, fixed
<1>2. t.at \in Scene /\ t.images \in [Scene -> ImageBytes \cup {None}] /\ t.bytes \in ImageBytes
  BY <1>1, Given DEF Fine
<1>3. Works(t, version, object, metadata) /\ t.body = version /\ DOMAIN metadata = Slot
  BY <1>1, AtWork
<1>4. Found(t, object, metadata) /\ t.bytes = object[ImageKey(t.at)]
  BY <1>1, <1>3 DEF Works, Place
<1>5. /\ images \in [Scene -> ImageBytes \cup {None}] /\ images[t.at] = t.bytes
      /\ \A n \in Scene \ {t.at} : images[n] = t.images[n]
  BY <1>2
<1> HIDE DEF images
<1>6. /\ metadata'[ImageKey(t.at)] = Described(ImageFingerprint(t.via), t.bytes)
      /\ \A n \in Scene \ {t.at} : metadata'[ImageKey(n)] = metadata[ImageKey(n)]
  BY <1>1, <1>2, <1>3, SlotIs
<1>7. \A n \in Scene \ {t.at} : Valid(n, object, metadata') <=> Valid(n, object, metadata)
  BY <1>6 DEF Valid
<1>8. Valid(t.at, object, metadata') <=> t.via = "pexels"
  <2>1. /\ Described(ImageFingerprint(t.via), t.bytes).fingerprint[2] = t.via
        /\ Described(ImageFingerprint("pexels"), t.bytes).fingerprint[2] = "pexels"
    BY DEF Described, ImageFingerprint
  <2> QED
    BY <1>2, <1>4, <1>6, <2>1, NoneIsNone DEF Valid
<1>9. \A n \in Scene : images[n] # None =>
        images[n] = object[ImageKey(n)] /\ (t.via = "pexels" => Valid(n, object, metadata'))
  BY <1>4, <1>5, <1>7, <1>8 DEF Found
<1>10. \A n \in Scene : images[n] = None /\ t.via = "pexels" => ~Valid(n, object, metadata')
  <2> SUFFICES ASSUME NEW n \in Scene, images[n] = None, t.via = "pexels" PROVE ~Valid(n, object, metadata')
    OBVIOUS
  <2>1. n # t.at
    BY <1>2, <1>5, NoneIsNone
  <2>2. t.images[n] = None
    BY <1>5, <2>1
  <2>3. ~Valid(n, object, metadata)
    BY <1>1, <1>4, <2>1, <2>2 DEF Found
  <2> QED
    BY <1>7, <2>1, <2>3
<1>11. Distinct(object, metadata')
  <2>1. Distinct(object, metadata)
    BY <1>1, Alone
  <2>2. ASSUME NEW k \in Scene \ {t.at}, Valid(t.at, object, metadata'), Valid(k, object, metadata')
        PROVE  object[ImageKey(k)] # t.bytes
    BY <1>1, <1>4, <1>5, <1>7, <1>8, <1>10, <2>2 DEF Found
  <2>3. ASSUME NEW n \in Scene, NEW k \in Scene, Valid(n, object, metadata'), Valid(k, object, metadata'),
               object[ImageKey(n)] = object[ImageKey(k)]
        PROVE  n = k
    BY <1>4, <1>7, <2>1, <2>2, <2>3 DEF Distinct
  <2> QED
    BY <2>3 DEF Distinct
<1>12. Named(metadata')
  <2>1. Described(ImageFingerprint(t.via), t.bytes).fingerprint[1] = "images"
    BY DEF Described, ImageFingerprint
  <2>2. \A k \in Slot : k # ImageKey(t.at) => metadata'[k] = metadata[k]
    BY <1>1, <1>3
  <2>3. Named(metadata)
    BY <1>1, Alone
  <2> QED
    BY <1>6, <2>1, <2>2, <2>3 DEF Named
<1>13. UNCHANGED <<spoken, version, object>> /\ t.pc \in {"read", "check", "describe"}
  BY <1>1
<1> QED
  BY <1>1, <1>5, <1>9, <1>10, <1>11, <1>12, <1>13, SettleKept

LEMMA FilePlace ==
  ASSUME NEW s, NextStep(s.body) # "IMAGES"
  PROVE  Place(s) = <<NextStep(s.body), 0>>
  BY DEF Place

LEMMA ReadFileKept ==
  ASSUME IInv, Kept, ~overlapped', NEW w \in Worker, ReadVoice(w) \/ ReadVideo(w) \/ ReadPackage(w)
  PROVE  Kept'
<1> DEFINE t == worker[w]
<1>1. /\ ~overlapped /\ t.pc = "read" /\ Active(t) /\ NextStep(t.body) # "IMAGES"
      /\ UNCHANGED <<spoken, version, object, metadata>>
  BY DEF ReadVoice, ReadVideo, ReadPackage, At, Active, fixed, store
<1>2. /\ Works(t, version, object, metadata) /\ t.body = version /\ version[NextStep(version)] = None
      /\ DOMAIN worker = Worker
  BY <1>1, AtWork
<1>3. PICK pc \in {"make", "download", "check"}, bytes \in {None, object[Place(t)]} :
        Goto(w, pc, bytes) /\ (pc = "check" => bytes = object[Place(t)])
  BY <1>1, FilePlace DEF ReadVoice, ReadVideo, ReadPackage, At, Get, VoiceKey, VideoKey, PackageKey
<1>4. PICK s : /\ worker' = [worker EXCEPT ![w] = s] /\ s.pc = pc /\ s.bytes = bytes
               /\ s.body = t.body /\ s.at = t.at /\ s.via = t.via /\ s.images = t.images /\ s.got = t.got
  BY <1>3, Given, GotoIs
<1>5. Place(s) = Place(t)
  BY <1>4 DEF Place
<1>6. Proper(s, version, object, metadata)
  BY <1>1, <1>2, <1>3, <1>4, <1>5 DEF Proper, Works
<1> QED
  BY <1>1, <1>2, <1>3, <1>4, <1>6, TurnQuiet

\* The file that is under the key of the step completes the body.
LEMMA ReturnKept ==
  ASSUME IInv, Kept, ~overlapped, NEW w \in Worker, worker[w].pc \in {"check", "describe"},
         NextStep(version) # "IMAGES", Return(w, worker[w].bytes), UNCHANGED <<spoken, version, object>>,
         Named(metadata'), Distinct(object, metadata'),
         NextStep(version) = "VIDEO" => Shows(worker[w].bytes, version["IMAGES"], version["VOICEOVER"]),
         NextStep(version) = "PACKAGE" =>
             Holds(worker[w].bytes, version["IMAGES"], version["VOICEOVER"], version["VIDEO"])
  PROVE  Kept'
<1> DEFINE t == worker[w]
<1>1. Active(t) /\ version' = version /\ object' = object /\ UNCHANGED spoken
  BY DEF Active
<1>2. /\ DOMAIN worker = Worker /\ spoken \in BOOLEAN /\ Sound(version) /\ t.body = version
      /\ version[NextStep(version)] = None /\ Works(t, version, object, metadata)
      /\ \A v \in Worker \ {w} : ~Active(worker[v])
  BY <1>1, AtWork
<1>3. PICK s : /\ worker' = [worker EXCEPT ![w] = s] /\ s.pc = "save"
               /\ s.body = [t.body EXCEPT ![NextStep(t.body)] = t.bytes]
  BY Given, ReturnIs
<1>4. t.bytes = object[<<NextStep(version), 0>>]
  BY <1>2, FilePlace DEF Works
<1>5. \A slot \in Slot : slot[1] = NextStep(version) =>
        object[slot] = (IF slot[1] = "IMAGES" THEN t.bytes.images[slot[2]] ELSE t.bytes)
  BY <1>4, SlotIs
<1>6. Filed(version, object)
  BY Alone
<1>7. Filed([version EXCEPT ![NextStep(version)] = t.bytes], object)
  BY <1>2, <1>5, <1>6, FiledAdd
<1>8. Proper(s, version', object', metadata')
  BY <1>1, <1>2, <1>3, <1>7 DEF Proper
<1>9. Filed(version', object') /\ Named(metadata') /\ Distinct(object', metadata')
  BY <1>1, <1>6
<1> QED
  BY <1>1, <1>2, <1>3, <1>8, <1>9, Turn

\* A video or package that is found is the one of the body's references.
LEMMA CheckFileKept ==
  ASSUME IInv, Kept, ~overlapped', NEW w \in Worker, CheckVoice(w) \/ CheckVideo(w) \/ CheckPackage(w)
  PROVE  Kept'
<1> DEFINE t == worker[w]
<1>1. /\ ~overlapped /\ t.pc = "check" /\ Active(t) /\ NextStep(t.body) # "IMAGES"
      /\ UNCHANGED <<spoken, version, object, metadata>>
  BY DEF CheckVoice, CheckVideo, CheckPackage, At, Active, fixed, store
<1>2. /\ Works(t, version, object, metadata) /\ t.body = version /\ version[NextStep(version)] = None
      /\ DOMAIN worker = Worker
  BY <1>1, AtWork
<1>3. CASE \E pc \in {"make", "download"} : Goto(w, pc, None)
  <2>1. PICK pc \in {"make", "download"} : Goto(w, pc, None)
    BY <1>3
  <2>2. PICK s : /\ worker' = [worker EXCEPT ![w] = s] /\ s.pc = pc /\ s.bytes = None
                 /\ s.body = t.body /\ s.at = t.at /\ s.via = t.via /\ s.images = t.images /\ s.got = t.got
    BY <2>1, Given, GotoIs
  <2>3. Proper(s, version, object, metadata)
    BY <1>1, <1>2, <2>1, <2>2 DEF Proper, Works
  <2> QED
    BY <1>1, <1>2, <2>1, <2>2, <2>3, TurnQuiet
<1>4. CASE ~\E pc \in {"make", "download"} : Goto(w, pc, None)
  <2>1. Return(w, t.bytes)
    BY <1>4 DEF CheckVoice, CheckVideo, CheckPackage
  <2>2. Named(metadata) /\ metadata' = metadata /\ Distinct(object, metadata)
    BY <1>1, Alone
  <2>3. ASSUME NextStep(version) = "VIDEO" PROVE Shows(t.bytes, version["IMAGES"], version["VOICEOVER"])
    <3>1. IsHit(w, VideoKey, VideoFingerprint(version)) /\ VideoKey \in Slot
      BY <1>2, <1>4, <2>3, OtherKeys DEF CheckVoice, CheckVideo, CheckPackage, At
    <3>2. /\ metadata[VideoKey] # None
          /\ metadata[VideoKey].fingerprint = VideoFingerprint(version) /\ metadata[VideoKey].checksum = t.bytes
      BY <3>1 DEF IsHit, Described
    <3>3. /\ VideoFingerprint(version)[1] = "video" /\ VideoFingerprint(version)[2] = version["IMAGES"]
          /\ VideoFingerprint(version)[3] = version["VOICEOVER"]
      BY DEF VideoFingerprint
    <3> QED
      BY <2>2, <3>1, <3>2, <3>3 DEF Named
  <2>4. ASSUME NextStep(version) = "PACKAGE"
        PROVE  Holds(t.bytes, version["IMAGES"], version["VOICEOVER"], version["VIDEO"])
    <3>1. IsHit(w, PackageKey, PackageFingerprint(version)) /\ PackageKey \in Slot
      BY <1>2, <1>4, <2>4, OtherKeys DEF CheckVoice, CheckVideo, CheckPackage, At
    <3>2. /\ metadata[PackageKey] # None
          /\ metadata[PackageKey].fingerprint = PackageFingerprint(version) /\ metadata[PackageKey].checksum = t.bytes
      BY <3>1 DEF IsHit, Described
    <3>3. /\ PackageFingerprint(version)[1] = "package" /\ PackageFingerprint(version)[2] = version["IMAGES"]
          /\ PackageFingerprint(version)[3] = version["VOICEOVER"] /\ PackageFingerprint(version)[4] = version["VIDEO"]
      BY DEF PackageFingerprint
    <3> QED
      BY <2>2, <3>1, <3>2, <3>3 DEF Named
  <2>5. NextStep(version) # "IMAGES" /\ UNCHANGED <<spoken, version, object>> /\ t.pc \in {"check", "describe"}
    BY <1>1, <1>2
  <2> QED
    BY <1>1, <2>1, <2>2, <2>3, <2>4, <2>5, ReturnKept
<1> QED
  BY <1>3, <1>4

LEMMA SynthesizeKept == ASSUME IInv, Kept, ~overlapped', NEW w \in Worker, Synthesize(w) PROVE Kept'
<1> DEFINE t == worker[w]
<1>1. /\ ~overlapped /\ t.pc = "make" /\ Active(t) /\ NextStep(t.body) = "VOICEOVER"
      /\ UNCHANGED <<spoken, version, object, metadata>> /\ \E bytes : Goto(w, "put", bytes)
  BY DEF Synthesize, At, Active, fixed, store
<1>2. /\ Works(t, version, object, metadata) /\ t.body = version /\ version[NextStep(version)] = None
      /\ DOMAIN worker = Worker
  BY <1>1, AtWork
<1>3. PICK s : /\ worker' = [worker EXCEPT ![w] = s] /\ s.pc = "put" /\ s.body = t.body
  BY <1>1, Given, GotoIs
<1>4. Proper(s, version, object, metadata)
  BY <1>1, <1>2, <1>3 DEF Proper, Works
<1> QED
  BY <1>1, <1>2, <1>3, <1>4, TurnQuiet

LEMMA DownloadKept == ASSUME IInv, Kept, ~overlapped', NEW w \in Worker, Download(w) PROVE Kept'
<1> DEFINE t == worker[w]
<1>1. ~overlapped /\ t.pc = "download" /\ Active(t) /\ UNCHANGED <<spoken, version, object, metadata>>
  BY DEF Download, Active, fixed, store
<1>2. /\ Works(t, version, object, metadata) /\ t.body = version /\ version[NextStep(version)] = None
      /\ DOMAIN worker = Worker
  BY <1>1, AtWork
<1>3. NextStep(version) # "IMAGES"
  BY <1>1, <1>2 DEF Works, Making
<1>4. PICK slot : worker' = [worker EXCEPT ![w] = [t EXCEPT !.got = [t.got EXCEPT ![slot] = object[slot]]]]
  BY DEF Download
<1>5. PICK got : got = [t.got EXCEPT ![slot] = object[slot]]
  OBVIOUS
<1>6. DOMAIN got = Slot /\ \A k \in Slot : got[k] # None => got[k] = object[k]
  <2>1. DOMAIN t.got = Slot /\ \A k \in Slot : t.got[k] # None => t.got[k] = object[k]
    BY <1>1, <1>2, <1>3 DEF Works
  <2> QED
    BY <1>5, <2>1
<1>7. PICK s : s = [t EXCEPT !.got = got]
  OBVIOUS
<1>8. worker' = [worker EXCEPT ![w] = s]
  BY <1>4, <1>5, <1>7
<1>9. s.pc = "download" /\ s.body = version /\ s.got = got
  BY <1>1, <1>2, <1>7, Given DEF Fine, Fields
<1>10. Proper(s, version, object, metadata)
  BY <1>2, <1>3, <1>6, <1>9 DEF Proper, Works
<1> QED
  BY <1>1, <1>2, <1>8, <1>9, <1>10, TurnQuiet

\* What has been downloaded for a step are the files that the body refers to.
LEMMA DownloadsAreReferences ==
  ASSUME IInv, Kept, ~overlapped, NEW w \in Worker, Downloaded(w), NextStep(version) \in {"VIDEO", "PACKAGE"},
         NEW slot \in Inputs(NextStep(version))
  PROVE  worker[w].got[slot] = Reference(version, slot)
<1> DEFINE t == worker[w]
<1>1. t.pc = "download" /\ Active(t) /\ Pending(w) = {}
  BY DEF Downloaded, Active
<1>2. t.body = version /\ Works(t, version, object, metadata) /\ Filed(version, object)
  BY <1>1, AtWork, Alone
<1>3. t.got[slot] # None
  BY <1>1, <1>2 DEF Pending
<1>4. slot \in Slot
  BY OtherKeys DEF Inputs
<1>5. t.got[slot] = object[slot]
  BY <1>1, <1>2, <1>3, <1>4 DEF Works
<1>6. version[slot[1]] # None
  <2>1. slot[1] \in {"IMAGES", "VOICEOVER", "VIDEO"}
    BY SlotIs DEF Inputs, VoiceKey, VideoKey
  <2>2. version["IMAGES"] # None
    BY DEF NextStep
  <2>3. slot[1] = "VOICEOVER" => spoken
    BY SlotIs DEF Inputs, VoiceKey, VideoKey
  <2>4. spoken => version["VOICEOVER"] # None
    BY DEF NextStep
  <2>5. slot[1] = "VIDEO" => NextStep(version) = "PACKAGE"
    BY SlotIs DEF Inputs, VoiceKey, VideoKey
  <2>6. NextStep(version) = "PACKAGE" => version["VIDEO"] # None
    BY Given DEF NextStep
  <2> QED
    BY <2>1, <2>2, <2>3, <2>4, <2>5, <2>6
<1> QED
  BY <1>2, <1>4, <1>5, <1>6 DEF Filed

\* So the video shows, and the package holds, what the references say.
LEMMA BuildKept == ASSUME IInv, Kept, ~overlapped', NEW w \in Worker, Render(w) \/ Build(w) PROVE Kept'
<1> DEFINE t == worker[w]
<1>1. /\ ~overlapped /\ t.pc = "download" /\ Active(t) /\ Downloaded(w) /\ NextStep(t.body) \in {"VIDEO", "PACKAGE"}
      /\ UNCHANGED <<spoken, version, object, metadata>>
  BY DEF Render, Build, Downloaded, Active, fixed, store
<1>2. /\ Works(t, version, object, metadata) /\ t.body = version /\ version[NextStep(version)] = None
      /\ DOMAIN worker = Worker /\ Filed(version, object)
  BY <1>1, AtWork, Alone
<1>3. \A slot \in Inputs(NextStep(version)) : t.got[slot] = Reference(version, slot)
  BY <1>1, <1>2, DownloadsAreReferences
<1>4. ASSUME NEW bytes, bytes.of = t.got PROVE Shows(bytes, version["IMAGES"], version["VOICEOVER"])
  <2>1. \A n \in Scene : t.got[ImageKey(n)] = version["IMAGES"].images[n]
    BY <1>3, SlotIs DEF Inputs, Reference
  <2>2. VoiceKey[1] = "VOICEOVER"
    BY DEF VoiceKey
  <2>3. spoken => t.got[VoiceKey] = version["VOICEOVER"]
    BY <1>3, <2>2 DEF Inputs, Reference
  <2> QED
    BY <1>4, <2>1, <2>3 DEF Shows
<1>5. PICK bytes :
        /\ Goto(w, "put", bytes)
        /\ NextStep(version) = "VIDEO" => Shows(bytes, version["IMAGES"], version["VOICEOVER"])
        /\ NextStep(version) = "PACKAGE" =>
              Holds(bytes, version["IMAGES"], version["VOICEOVER"], version["VIDEO"])
  <2>1. CASE Render(w)
    <3>1. PICK bytes : bytes = [by |-> "renderer", of |-> t.got, asked |-> <<t.body["IMAGES"], t.body["VOICEOVER"]>>]
      OBVIOUS
    <3>2. bytes.of = t.got /\ Goto(w, "put", bytes) /\ NextStep(version) = "VIDEO"
      BY <1>2, <2>1, <3>1 DEF Render
    <3> QED
      BY <1>4, <3>2
  <2>2. CASE Build(w)
    <3>1. PICK bytes : bytes = [by |-> "builder", of |-> t.got, manifest |-> t.body]
      OBVIOUS
    <3>2. /\ bytes.of = t.got /\ bytes.manifest = version /\ Goto(w, "put", bytes)
          /\ NextStep(version) = "PACKAGE"
      BY <1>2, <2>2, <3>1 DEF Build
    <3>3. bytes.of[VideoKey] = version["VIDEO"]
      <4>1. VideoKey[1] = "VIDEO" /\ VideoKey \in Inputs("PACKAGE")
        BY DEF VideoKey, Inputs
      <4> QED
        BY <1>3, <3>2, <4>1 DEF Reference
    <3>4. Manifest(version, version["IMAGES"], version["VOICEOVER"], version["VIDEO"])
      BY <1>2, <3>2 DEF Filed, Manifest
    <3> QED
      BY <1>4, <3>2, <3>3, <3>4 DEF Holds
  <2> QED
    BY <1>1, <2>1, <2>2
<1>6. PICK s : worker' = [worker EXCEPT ![w] = s] /\ s.pc = "put" /\ s.bytes = bytes /\ s.body = t.body
  BY <1>5, Given, GotoIs
<1>7. Proper(s, version, object, metadata)
  BY <1>1, <1>2, <1>5, <1>6 DEF Proper, Works
<1> QED
  BY <1>1, <1>2, <1>6, <1>7, TurnQuiet

LEMMA PutFileKept ==
  ASSUME IInv, Kept, ~overlapped', NEW w \in Worker, PutVoice(w) \/ PutVideo(w) \/ PutPackage(w)
  PROVE  Kept'
<1> DEFINE t == worker[w]
           slot == <<NextStep(version), 0>>
<1>1. /\ ~overlapped /\ t.pc = "put" /\ Active(t) /\ NextStep(t.body) \in Steps \ {"IMAGES"}
      /\ UNCHANGED spoken /\ version' = version /\ metadata' = metadata
      /\ Goto(w, "describe", t.bytes)
  BY DEF PutVoice, PutVideo, PutPackage, PutObject, At, Active, Steps, fixed
<1>2. /\ Works(t, version, object, metadata) /\ t.body = version /\ version[NextStep(version)] = None
      /\ DOMAIN worker = Worker /\ DOMAIN object = Slot
      /\ \A v \in Worker \ {w} : ~Active(worker[v])
  BY <1>1, AtWork
<1>3. object' = [object EXCEPT ![slot] = t.bytes]
  BY <1>2 DEF PutVoice, PutVideo, PutPackage, PutObject, At, VoiceKey, VideoKey, PackageKey
<1>4. slot \in Slot /\ slot[1] = NextStep(version) /\ \A n \in Scene : slot # ImageKey(n)
  BY <1>1, <1>2, SlotIs
<1>5. object'[slot] = t.bytes /\ \A n \in Scene : object'[ImageKey(n)] = object[ImageKey(n)]
  BY <1>2, <1>3, <1>4
<1>6. PICK s : /\ worker' = [worker EXCEPT ![w] = s] /\ s.pc = "describe" /\ s.bytes = t.bytes /\ s.body = t.body
  BY <1>1, Given, GotoIs
<1>7. s.bytes = object'[Place(s)]
  BY <1>1, <1>2, <1>5, <1>6, FilePlace
<1>8. Proper(s, version', object', metadata')
  BY <1>1, <1>2, <1>6, <1>7 DEF Proper, Works
<1>9. Filed(version', object')
  BY <1>1, <1>2, <1>3, <1>4, Alone, FiledPut
<1>10. Named(metadata') /\ Distinct(object', metadata')
  <2>1. Named(metadata) /\ Distinct(object, metadata)
    BY <1>1, Alone
  <2> QED
    BY <1>1, <1>5, <2>1 DEF Distinct, Valid
<1> QED
  BY <1>1, <1>2, <1>6, <1>8, <1>9, <1>10, Turn

LEMMA DescribeFileKept ==
  ASSUME IInv, Kept, ~overlapped', NEW w \in Worker,
         DescribeVoice(w) \/ DescribeVideo(w) \/ DescribePackage(w)
  PROVE  Kept'
<1> DEFINE t == worker[w]
           V == version
<1>1. /\ ~overlapped /\ t.pc = "describe" /\ Active(t) /\ NextStep(t.body) \in Steps \ {"IMAGES"}
      /\ UNCHANGED <<spoken, version, object>> /\ Return(w, t.bytes)
  BY DEF DescribeVoice, DescribeVideo, DescribePackage, At, Active, Steps, fixed
<1>2. Works(t, V, object, metadata) /\ t.body = V /\ DOMAIN metadata = Slot
  BY <1>1, AtWork
<1>3. /\ NextStep(V) = "VIDEO" => Shows(t.bytes, V["IMAGES"], V["VOICEOVER"])
      /\ NextStep(V) = "PACKAGE" => Holds(t.bytes, V["IMAGES"], V["VOICEOVER"], V["VIDEO"])
  BY <1>1, <1>2 DEF Works
<1>slot. PICK slot \in Slot : \E d :
        /\ metadata' = [metadata EXCEPT ![slot] = d] /\ \A n \in Scene : slot # ImageKey(n)
        /\ d.fingerprint[1] = "video" => Shows(d.checksum, d.fingerprint[2], d.fingerprint[3])
        /\ d.fingerprint[1] = "package" =>
              Holds(d.checksum, d.fingerprint[2], d.fingerprint[3], d.fingerprint[4])
  <2>1. CASE DescribeVoice(w)
    <3>1. PICK d : d = Described(VoiceFingerprint, t.bytes)
      OBVIOUS
    <3>2. d.fingerprint[1] = "voice"
      BY <3>1 DEF Described, VoiceFingerprint
    <3>3. metadata' = [metadata EXCEPT ![VoiceKey] = d]
      BY <2>1, <3>1 DEF DescribeVoice, PutMetadata
    <3> QED
      BY <3>2, <3>3, OtherKeys
  <2>2. CASE DescribeVideo(w)
    <3>1. PICK d : d = Described(VideoFingerprint(V), t.bytes)
      OBVIOUS
    <3>2. /\ d.checksum = t.bytes /\ d.fingerprint[1] = "video"
          /\ d.fingerprint[2] = V["IMAGES"] /\ d.fingerprint[3] = V["VOICEOVER"]
      BY <3>1 DEF Described, VideoFingerprint
    <3>3. metadata' = [metadata EXCEPT ![VideoKey] = d] /\ NextStep(V) = "VIDEO"
      BY <1>2, <2>2, <3>1 DEF DescribeVideo, PutMetadata, At
    <3> QED
      BY <1>3, <3>2, <3>3, OtherKeys
  <2>3. CASE DescribePackage(w)
    <3>1. PICK d : d = Described(PackageFingerprint(V), t.bytes)
      OBVIOUS
    <3>2. /\ d.checksum = t.bytes /\ d.fingerprint[1] = "package" /\ d.fingerprint[2] = V["IMAGES"]
          /\ d.fingerprint[3] = V["VOICEOVER"] /\ d.fingerprint[4] = V["VIDEO"]
      BY <3>1 DEF Described, PackageFingerprint
    <3>3. metadata' = [metadata EXCEPT ![PackageKey] = d] /\ NextStep(V) = "PACKAGE"
      BY <1>2, <2>3, <3>1 DEF DescribePackage, PutMetadata, At
    <3> QED
      BY <1>3, <3>2, <3>3, OtherKeys
  <2> QED
    BY <2>1, <2>2, <2>3
<1>4. PICK d :
        /\ metadata' = [metadata EXCEPT ![slot] = d] /\ \A n \in Scene : slot # ImageKey(n)
        /\ d.fingerprint[1] = "video" => Shows(d.checksum, d.fingerprint[2], d.fingerprint[3])
        /\ d.fingerprint[1] = "package" =>
              Holds(d.checksum, d.fingerprint[2], d.fingerprint[3], d.fingerprint[4])
  BY <1>slot
<1>5. \A k \in Slot : metadata'[k] = IF k = slot THEN d ELSE metadata[k]
  BY <1>2, <1>4
<1>6. Named(metadata) /\ Distinct(object, metadata)
  BY <1>1, Alone
<1>7. Named(metadata')
  BY <1>4, <1>5, <1>6 DEF Named
<1>8. Distinct(object, metadata')
  <2>1. \A n \in Scene : metadata'[ImageKey(n)] = metadata[ImageKey(n)]
    BY <1>4, <1>5, SlotIs
  <2> QED
    BY <1>6, <2>1 DEF Distinct, Valid
<1>9. NextStep(V) # "IMAGES" /\ t.pc \in {"check", "describe"}
  BY <1>1, <1>2
<1> QED
  BY <1>1, <1>3, <1>7, <1>8, <1>9, ReturnKept

LEMMA NextKept == ASSUME IInv, Rest, Kept, [Next]_vars PROVE Kept'
<1> SUFFICES ASSUME ~overlapped' PROVE Kept'
  BY DEF Kept
<1>1. CASE UNCHANGED vars
  <2>1. /\ UNCHANGED <<spoken, worker, version, object, metadata, overlapped>>
    BY <1>1 DEF vars
  <2>2. PICK V, O, M : V = version /\ O = object /\ M = metadata
    OBVIOUS
  <2>3. Filed(V, O)' /\ Named(M)' /\ Distinct(object, metadata)'
    BY <2>1, <2>2, Alone, Same DEF Distinct, Valid
  <2>4. ASSUME NEW w \in Worker, Active(worker[w]) PROVE Proper(worker[w], version, object, metadata)'
    <3>1. PICK s : s = worker[w]
      OBVIOUS
    <3>2. Proper(s, V, O, M)'
      BY <2>1, <2>2, <2>4, <3>1, Alone, Same
    <3> QED
      BY <2>1, <2>2, <3>1, <3>2
  <2>5. \A w \in Worker : Active(worker[w])' <=> Active(worker[w])
    BY <2>1 DEF Active
  <2> QED
    BY <2>1, <2>2, <2>3, <2>4, <2>5, Alone DEF Kept
<1>2. ASSUME NEW w \in Worker, Images(w) PROVE Kept'
  BY <1>2, ReadImageKept, CheckImageKept, MakeImageKept, FallBackKept, PutImageKept, DescribeImageKept DEF Images
<1>3. ASSUME NEW w \in Worker, Voice(w) PROVE Kept'
  BY <1>3, ReadFileKept, CheckFileKept, SynthesizeKept, PutFileKept, DescribeFileKept DEF Voice
<1>4. ASSUME NEW w \in Worker, Video(w) PROVE Kept'
  BY <1>4, ReadFileKept, CheckFileKept, EndKept, BuildKept, PutFileKept, DescribeFileKept DEF Video
<1>5. ASSUME NEW w \in Worker, Package(w) PROVE Kept'
  BY <1>5, ReadFileKept, CheckFileKept, BuildKept, PutFileKept, DescribeFileKept DEF Package
<1> QED
  BY <1>1, <1>2, <1>3, <1>4, <1>5, LoadKept, TakeKept, SaveKept, EndKept, DownloadKept DEF Next

\* One delivery at a time leaves nothing half done that the next one would trust.
THEOREM InductiveKept == Spec => [](IInv /\ Rest /\ Kept)
<1>1. Init => IInv /\ Rest /\ Kept
  BY InitIInv, InitRest, InitKept
<1>2. IInv /\ Rest /\ Kept /\ [Next]_vars => (IInv /\ Rest /\ Kept)'
  BY NextIInv, NextRest, NextKept
<1> QED
  BY <1>1, <1>2, PTL DEF Spec

\* pipeline.py, used_ids: as long as deliveries do not overlap, no stock photo
\* is used for two scenes, whatever earlier deliveries have left under the keys.
THEOREM PhotosAreDistinctHolds == Spec => []PhotosAreDistinct
<1>1. IInv /\ Rest /\ Kept => PhotosAreDistinct
  BY DEF Kept, Filed, PhotosAreDistinct, Pictures
<1> QED
  BY <1>1, InductiveKept, PTL

\* As long as deliveries do not overlap, the files at the keys are those of the
\* references, the video shows them and the package holds them, with a manifest
\* that describes them.
THEOREM FilesAreTheReferencesHolds == Spec => []FilesAreTheReferences
<1>1. ASSUME IInv, Kept, ~overlapped
      PROVE  /\ ChecksumIsOverStoredBytes
             /\ version["VIDEO"] # None => \A s \in Inputs("VIDEO") : version["VIDEO"].of[s] = Referenced[s]
             /\ version["PACKAGE"] # None =>
                   /\ \A s \in Inputs("PACKAGE") : version["PACKAGE"].of[s] = Referenced[s]
                   /\ version["PACKAGE"].manifest = [version EXCEPT !["PACKAGE"] = None]
  <2>1. Filed(version, object) /\ Sound(version) /\ spoken \in BOOLEAN
    BY <1>1, Alone, Constants DEF IInv
  <2>2. /\ DOMAIN Referenced = {k \in Slot : version[k[1]] # None}
        /\ \A s \in DOMAIN Referenced : Referenced[s] = Reference(version, s)
    BY DEF Referenced, Reference, Pictures
  <2>3. ChecksumIsOverStoredBytes
    BY <2>1, <2>2 DEF ChecksumIsOverStoredBytes, Filed
  <2>4. ASSUME version["VIDEO"] # None
        PROVE  version["IMAGES"] # None /\ (spoken => version["VOICEOVER"] # None)
    BY <2>1, <2>4 DEF Sound
  <2>5. VoiceKey \in Slot /\ VoiceKey[1] = "VOICEOVER" /\ VideoKey \in Slot /\ VideoKey[1] = "VIDEO"
    BY OtherKeys DEF VoiceKey, VideoKey
  <2>6. ASSUME version["VIDEO"] # None, NEW bytes, Shows(bytes, version["IMAGES"], version["VOICEOVER"]),
               NEW s \in Inputs("VIDEO")
        PROVE  bytes.of[s] = Referenced[s]
    <3>1. CASE \E n \in Scene : s = ImageKey(n)
      <4>1. PICK n \in Scene : s = ImageKey(n)
        BY <3>1
      <4>2. s \in DOMAIN Referenced /\ Referenced[s] = version["IMAGES"].images[n]
        BY <2>2, <2>4, <2>6, <4>1, SlotIs DEF Reference
      <4> QED
        BY <2>6, <4>1, <4>2 DEF Shows
    <3>2. CASE s = VoiceKey /\ spoken
      <4>1. s \in DOMAIN Referenced /\ Referenced[s] = version["VOICEOVER"]
        BY <2>2, <2>4, <2>5, <2>6, <3>2 DEF Reference
      <4> QED
        BY <2>6, <3>2, <4>1 DEF Shows
    <3> QED
      BY <2>6, <3>1, <3>2 DEF Inputs
  <2>7. ASSUME version["VIDEO"] # None
        PROVE  \A s \in Inputs("VIDEO") : version["VIDEO"].of[s] = Referenced[s]
    BY <2>1, <2>6, <2>7 DEF Filed
  <2>8. ASSUME version["PACKAGE"] # None
        PROVE  /\ \A s \in Inputs("PACKAGE") : version["PACKAGE"].of[s] = Referenced[s]
               /\ version["PACKAGE"].manifest = [version EXCEPT !["PACKAGE"] = None]
    <3>1. version["VIDEO"] # None /\ Holds(version["PACKAGE"], version["IMAGES"], version["VOICEOVER"], version["VIDEO"])
      BY <2>1, <2>8 DEF Filed
    <3>2. Inputs("PACKAGE") = Inputs("VIDEO") \cup {VideoKey}
      BY DEF Inputs
    <3>3. VideoKey \in DOMAIN Referenced /\ Referenced[VideoKey] = version["VIDEO"]
      BY <2>2, <2>5, <3>1 DEF Reference
    <3>4. \A s \in Inputs("PACKAGE") : version["PACKAGE"].of[s] = Referenced[s]
      BY <2>6, <3>1, <3>2, <3>3 DEF Holds
    <3>5. version["PACKAGE"].manifest = [version EXCEPT !["PACKAGE"] = None]
      <4> DEFINE m == version["PACKAGE"].manifest
                 e == [version EXCEPT !["PACKAGE"] = None]
      <4>1. DOMAIN version = Steps
        BY <2>1 DEF Sound
      <4>2. e = [s \in Steps |-> e[s]]
        BY <4>1
      <4>3. Manifest(m, version["IMAGES"], version["VOICEOVER"], version["VIDEO"])
        BY <3>1 DEF Holds
      <4>4. e["IMAGES"] = version["IMAGES"] /\ e["VOICEOVER"] = version["VOICEOVER"] /\ e["VIDEO"] = version["VIDEO"] /\ e["PACKAGE"] = None
        BY <4>1 DEF Steps
      <4> HIDE DEF m, e
      <4>5. \A s \in Steps : m[s] = e[s]
        BY <4>3, <4>4 DEF Manifest, Steps
      <4>6. m = e
        BY <4>2, <4>3, <4>5 DEF Manifest
      <4> QED
        BY <4>6 DEF m, e
    <3> QED
      BY <3>4, <3>5
  <2> QED
    BY <2>3, <2>7, <2>8
<1>2. IInv /\ Rest /\ Kept => FilesAreTheReferences
  BY <1>1 DEF FilesAreTheReferences
<1> QED
  BY <1>2, InductiveKept, PTL
=============================================================================
