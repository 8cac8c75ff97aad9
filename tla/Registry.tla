------------------------------ MODULE Registry ------------------------------
(***************************************************************************)
(* The registry client (internal/registry/registry.go): ImageExists and    *)
(* LastLayer over one image reference, one remote call per step.          *)
(*                                                                         *)
(* An image reference is a sequence of tokens: Name stands for a run of    *)
(* name characters, and ":", "/" and "@" for the separators the code and   *)
(* the reference grammar split on. getPullOptions takes the repository    *)
(* with strings.Split; a manifest list is resolved by a second request to *)
(* repo@archDigest, and a layer is pulled from repo@digest.               *)
(* VerifyModuleExists then scans the last layer's tar headers for the     *)
(* module file (getHeaderReaderFromLayer); the file's path, built from    *)
(* the prefix, the kernel and the file name, is the entry "module".       *)
(***************************************************************************)
EXTENDS Naturals, Sequences, SequencesExt

CONSTANTS
    Name,      \* a run of name characters
    Layers,    \* layer digests
    NoResult,
    GOARCH     \* runtime.GOARCH of the controller

Seps == {":", "/", "@"}

\* The references a Module may name: an optional registry host with a port,
\* a one- or two-segment path, and no suffix, a tag or a digest.
Hosts == {<<>>, <<Name, ":", Name, "/">>}
Paths == {<<Name>>, <<Name, "/", Name>>}
RefSuffixes == {<<>>, <<":", Name>>, <<"@", Name>>}
ImageRefs == {h \o p \o s : h \in Hosts, p \in Paths, s \in RefSuffixes}

\* The part of s before the first occurrence of sep: strings.Split(s, sep)[0].
BeforeFirst(s, sep) ==
    LET i == SelectInSeq(s, LAMBDA t : t = sep)
    IN IF i = 0 THEN s ELSE SubSeq(s, 1, i - 1)

Has(s, sep) == \E i \in 1..Len(s) : s[i] = sep

\* The repository of a reference per the reference grammar: before the
\* digest, else before a tag (a ":" after the last "/"), else all of it.
ReferenceRepo(s) ==
    LET slash == SelectLastInSeq(s, LAMBDA t : t = "/")
        colon == SelectLastInSeq(s, LAMBDA t : t = ":")
    IN IF Has(s, "@") THEN BeforeFirst(s, "@")
       ELSE IF colon > slash THEN SubSeq(s, 1, colon - 1)
       ELSE s

\* getPullOptions: the repository is what precedes the first "@", else the
\* first ":"; an empty result is an invalid reference.
PullRepo(s) ==
    IF Has(s, "@") THEN BeforeFirst(s, "@")
    ELSE IF Has(s, ":") THEN BeforeFirst(s, ":")
    ELSE <<>>

VARIABLES
    image,      \* the reference asked for
    op,         \* "exists" (ImageExists) or "lastLayer" (LastLayer)
    stored,     \* the registry holds the image
    mediaType,  \* the mediaType of the manifest crane.Manifest returns
    platforms,  \* of a manifest list: the architecture of each entry
    layers,     \* the layer digests of the (arch) image manifest
    content,    \* per layer: its tar entries, in order
    pc, repo,
    layer,      \* the layer LastLayer returned
    entry,      \* the index of the next tar header to read
    readFailed, \* reading the layer failed (history)
    data,       \* ExtractBytesFromTar: the bytes of the current tar entry
    contents,   \* the buffer make([]byte, header.Size)
    offset,     \* the code's offset into contents
    consumed,   \* the bytes of the entry the tar reader has handed out
    li,         \* WalkFilesInImage: the index i of the layer being walked
    visited,    \* the files fn was called on, as <<layer index, entry>>
    layerMT,    \* per layer: its MediaType()
    added,      \* the image AddLayerToImage returned, or NoResult
    result      \* "exists", "absent", "error", "found", "notFound",
                \* "panic", "extracted", "walked", "added", NoResult

vars == <<image, op, stored, mediaType, platforms, layers, content, pc, repo,
          layer, entry, readFailed, data, contents, offset, consumed,
          li, visited, layerMT, added, result>>

LayerSeqs == {<<a>> : a \in Layers} \cup {<<a, b>> : a, b \in Layers}

\* Layer archives: the module file after another file, or a header that
\* cannot be read.
Tars == {<<>>, <<"module">>, <<"other">>, <<"other", "module">>,
         <<"other", "corrupt">>}
Ops == {"exists", "verify"}
Results == {"exists", "absent", "error", "found", "notFound", "panic",
            "extracted", "walked", "added", NoResult}

\* Tar entries of up to MaxEntrySize bytes.
MaxEntrySize == 3
Bytes == {0, 1}
Entries == UNION {[1..n -> Bytes] : n \in 0..MaxEntrySize}

\* The manifest media types of Docker and OCI, and a manifest without one.
MediaTypes == {"docker.manifest.v2", "docker.manifest.list.v2",
               "oci.image.manifest.v1", "oci.image.index.v1", "none"}

\* strings.Contains(imageMediaType, "manifest.list").
IsManifestList(mt) == mt = "docker.manifest.list.v2"

\* A list entry's platform architecture; "none" for an entry without one.
Archs == {GOARCH, "arm64", "none"}
PlatformLists == {<<>>} \cup {<<a>> : a \in Archs} \cup {<<a, b>> : a, b \in Archs}

\* getImageDigestFromMultiImage: the first entry whose platform is GOARCH,
\* 0 when there is none.
ArchManifest(list) == SelectInSeq(list, LAMBDA a : a = GOARCH)

\* getLayersDigestsFromManifestStream: the "layers" of the manifest that
\* getManifestStreamFromImage returned. An image index that is not a
\* Docker manifest list is returned as it is, and has none.
ManifestDigests ==
    IF mediaType = "oci.image.index.v1" THEN <<>> ELSE layers

\* The media types of a layer.
LayerMediaTypes == {"docker.layer.tar.gzip", "oci.layer.tar.gzip"}

\* An image with the signed layer appended: the layers below it, the
\* signed layer's media type and the image's manifest media type.
AddedImage == [below : LayerSeqs, topMT : LayerMediaTypes,
               mediaType : MediaTypes]

TypeOK ==
    /\ image \in ImageRefs /\ op \in Ops \cup {"extract", "walk", "addLayer"}
    /\ stored \in BOOLEAN /\ mediaType \in MediaTypes
    /\ platforms \in PlatformLists
    /\ layers \in LayerSeqs /\ content \in [Layers -> Tars]
    /\ pc \in {"start", "manifest", "arch", "digests", "layer", "uncompress",
               "next", "read", "walkLayer", "walkNext", "done"}
    /\ data \in Entries /\ contents \in Entries
    /\ offset \in 0..MaxEntrySize /\ consumed \in 0..MaxEntrySize
    /\ li \in 0..2 /\ visited \in Seq((1..2) \X (1..2))
    /\ layerMT \in [Layers -> LayerMediaTypes]
    /\ added \in AddedImage \cup {NoResult}
    /\ repo \in Seq(Seps \cup {Name})
    /\ layer \in Layers \cup {NoResult} /\ entry \in 1..3
    /\ readFailed \in BOOLEAN /\ result \in Results

\* The state of the walk and of AddLayerToImage, in the other calls.
Untouched ==
    /\ li = 0 /\ visited = <<>> /\ added = NoResult
    /\ layerMT = [l \in Layers |-> "docker.layer.tar.gzip"]

InitCall ==
    /\ image \in ImageRefs /\ op \in Ops /\ Untouched
    /\ stored \in BOOLEAN
    /\ mediaType \in IF stored THEN MediaTypes ELSE {"docker.manifest.v2"}
    /\ platforms \in IF IsManifestList(mediaType) THEN PlatformLists ELSE {<<>>}
    /\ layers \in LayerSeqs
    /\ content \in IF op = "verify" THEN [Layers -> Tars]
                                     ELSE {[l \in Layers |-> <<>>]}
    /\ pc = "start" /\ repo = <<>> /\ layer = NoResult /\ entry = 1
    /\ readFailed = FALSE /\ result = NoResult
    /\ data = <<>> /\ contents = <<>> /\ offset = 0 /\ consumed = 0

\* ExtractBytesFromTar(header.Size, tarreader) on an entry of any size and
\* contents; the image fields are left at one value.
InitExtract ==
    /\ op = "extract" /\ pc = "read"
    /\ image = <<Name>> /\ stored = FALSE /\ mediaType = "docker.manifest.v2"
    /\ platforms = <<>> /\ layers = <<CHOOSE l \in Layers : TRUE>>
    /\ content = [l \in Layers |-> <<>>]
    /\ repo = <<>> /\ layer = NoResult /\ entry = 1 /\ readFailed = FALSE
    /\ Untouched
    /\ data \in Entries /\ contents = [i \in DOMAIN data |-> 0]
    /\ offset = 0 /\ consumed = 0 /\ result = NoResult

\* The image the signing tool pulled (GetImageByName), with its layers.
Pulled ==
    /\ image = <<Name>> /\ stored = TRUE /\ platforms = <<>>
    /\ layers \in LayerSeqs
    /\ repo = <<>> /\ layer = NoResult /\ entry = 1 /\ readFailed = FALSE
    /\ data = <<>> /\ contents = <<>> /\ offset = 0 /\ consumed = 0
    /\ li = 0 /\ visited = <<>> /\ added = NoResult /\ result = NoResult

\* WalkFilesInImage over an image whose layers hold any archives.
InitWalk ==
    /\ op = "walk" /\ pc = "start" /\ Pulled
    /\ mediaType = "docker.manifest.v2" /\ content \in [Layers -> Tars]
    /\ layerMT = [l \in Layers |-> "docker.layer.tar.gzip"]

\* AddLayerToImage on a single-arch image of either format whose layers
\* have any media types.
InitAddLayer ==
    /\ op = "addLayer" /\ pc = "start" /\ Pulled
    /\ mediaType \in {"docker.manifest.v2", "oci.image.manifest.v1"}
    /\ content = [l \in Layers |-> <<>>]
    /\ layerMT \in [Layers -> LayerMediaTypes]

Init == InitCall \/ InitExtract \/ InitWalk \/ InitAddLayer

Fixed == UNCHANGED <<image, op, stored, mediaType, platforms, layers, content,
                     data, contents, offset, consumed, li, visited, layerMT,
                     added>>

Reading == UNCHANGED <<layer, entry, readFailed>>

\* A remote call fails: a 404 or any other error.
Fail(kind) == /\ result' = kind /\ pc' = "done" /\ UNCHANGED repo

\* Mutation of ImageExists: only a 404 is told apart; any other error
\* reads as an existing image.
ImageExistsIgnoringErrors(err) ==
    IF op = "exists" /\ err = "notFound" THEN Fail("absent")
    ELSE IF op = "exists" THEN /\ result' = "exists" /\ pc' = "done"
                               /\ UNCHANGED repo
    ELSE Fail("error")

\* How the caller sees a failed manifest request: ImageExists maps a 404 to
\* (false, nil) and returns every other error; LastLayer returns the error.
ImageExists(err) ==
    IF op = "exists" /\ err = "notFound" THEN Fail("absent") ELSE Fail("error")

\* getPullOptions: parse the repository; the keychain lookup may fail.
GetPullOptions ==
    /\ pc = "start" /\ op \in Ops
    /\ \/ /\ PullRepo(image) # <<>>
          /\ repo' = PullRepo(image) /\ pc' = "manifest"
          /\ UNCHANGED result
       \/ /\ PullRepo(image) = <<>>
          /\ Fail("error")
       \/ /\ PullRepo(image) # <<>>     \* GetKeyChain fails
          /\ Fail("error")
    /\ Fixed /\ Reading

\* crane.Manifest(image): the full reference is asked for, so it is found
\* when the image is stored; a manifest without a mediaType is an error,
\* and a manifest list goes on to the arch request.
GetManifest ==
    /\ pc = "manifest"
    /\ \/ /\ stored /\ mediaType # "none"
          /\ pc' = IF IsManifestList(mediaType) THEN "arch" ELSE "digests"
          /\ UNCHANGED <<repo, result>>
       \/ /\ stored /\ mediaType = "none"
          /\ ImageExists("other")
       \/ /\ ~stored
          /\ ImageExists("notFound")
       \/ ImageExists("other")
    /\ Fixed /\ Reading

\* getImageDigestFromMultiImage and crane.Manifest(repo@archDigest): the
\* arch manifest is found only in the image's own repository; a request to
\* another repository gets a 404 or another error.
GetArchManifest ==
    /\ pc = "arch"
    /\ \/ /\ ArchManifest(platforms) # 0 /\ repo = ReferenceRepo(image)
          /\ pc' = "digests" /\ UNCHANGED <<repo, result>>
       \/ /\ ArchManifest(platforms) = 0
          /\ ImageExists("other")
       \/ /\ ArchManifest(platforms) # 0 /\ repo # ReferenceRepo(image)
          /\ \E err \in {"notFound", "other"} : ImageExists(err)
    /\ Fixed /\ Reading

\* ImageExists returns true; LastLayer reads the layer digests.
ManifestDone ==
    /\ pc = "digests"
    /\ IF op = "exists"
         THEN result' = "exists" /\ pc' = "done"
         ELSE pc' = "layer" /\ UNCHANGED result
    /\ UNCHANGED repo
    /\ Fixed /\ Reading

\* Mutation of LastLayer: the first digest is taken.
FirstDigest(ds) == ds[1]

\* LastLayer: digests[len(digests)-1].
LastDigest(ds) == ds[Len(ds)]

\* LastLayer indexes digests[len(digests)-1], out of range (a runtime panic)
\* when there are none; GetLayerByDigest then pulls repo@digest, and
\* VerifyModuleExists reads the layer LastLayer returns.
GetLayerByDigest ==
    /\ pc = "layer"
    /\ \/ /\ ManifestDigests = <<>>
          /\ result' = "panic" /\ pc' = "done" /\ UNCHANGED <<repo, layer>>
       \/ /\ ManifestDigests # <<>> /\ repo = ReferenceRepo(image)
          /\ layer' = LastDigest(ManifestDigests) /\ pc' = "uncompress"
          /\ UNCHANGED <<repo, result>>
       \/ /\ ManifestDigests # <<>>
          /\ Fail("error") /\ UNCHANGED layer
    /\ UNCHANGED <<entry, readFailed>>
    /\ Fixed

\* VerifyModuleExists returns false on every error of
\* getHeaderReaderFromLayer, a missing file or a failed read alike.
NotFound(failed) ==
    /\ result' = "notFound" /\ pc' = "done"
    /\ readFailed' = failed

\* layer.Uncompressed(): the layer is fetched and opened, or fails.
Uncompress ==
    /\ pc = "uncompress"
    /\ \/ pc' = "next" /\ UNCHANGED <<result, readFailed>>
       \/ NotFound(TRUE)
    /\ UNCHANGED <<repo, layer, entry>>
    /\ Fixed

\* tr.Next(): the end of the archive, a header that cannot be read, the
\* module file (found: the reader is returned), or another file.
NextHeader ==
    LET tar == content[layer]
    IN /\ pc = "next"
       /\ \/ /\ entry > Len(tar)                   \* io.EOF
             /\ NotFound(FALSE) /\ UNCHANGED entry
          \/ /\ entry <= Len(tar)                  \* a read error
             /\ NotFound(TRUE) /\ UNCHANGED entry
          \/ /\ entry <= Len(tar) /\ tar[entry] = "module"
             /\ result' = "found" /\ pc' = "done"
             /\ UNCHANGED <<entry, readFailed>>
          \/ /\ entry <= Len(tar) /\ tar[entry] = "other"
             /\ entry' = entry + 1
             /\ UNCHANGED <<pc, result, readFailed>>
       /\ UNCHANGED <<repo, layer>>
       /\ Fixed

\* Mutation of the read: tarreader.Read(contents), the offset forgotten.
ReadIntoStart(buf, off, chunk) ==
    [i \in DOMAIN buf |-> IF i <= Len(chunk) THEN chunk[i] ELSE buf[i]]

\* tarreader.Read(contents[offset:]) fills the buffer from offset on.
ReadInto(buf, off, chunk) ==
    [i \in DOMAIN buf |-> IF off < i /\ i <= off + Len(chunk)
                           THEN chunk[i - off] ELSE buf[i]]

\* One iteration of ExtractBytesFromTar's loop. The io.Reader hands out at
\* most len(contents[offset:]) bytes and what is left of the entry, maybe
\* fewer; io.EOF comes along with the entry's last bytes (as tar.Reader
\* does) or on the next, empty, read; a broken archive fails the read. The
\* code returns on an error, else adds the count to offset and stops at
\* io.EOF.
ReadChunk ==
    LET room == Len(contents) - offset
        left == Len(data) - consumed
        most == Min({room, left})
    IN /\ pc = "read"
       /\ \/ \E n \in IF most = 0 THEN {0} ELSE 1..most :
             \E eof \in IF consumed + n < Len(data) THEN {FALSE}
                        ELSE IF n = 0 THEN {TRUE} ELSE BOOLEAN :
                  /\ contents' = ReadInto(contents, offset,
                                          SubSeq(data, consumed + 1, consumed + n))
                  /\ offset' = offset + n /\ consumed' = consumed + n
                  /\ IF eof THEN result' = "extracted" /\ pc' = "done"
                            ELSE UNCHANGED <<result, pc>>
          \/ /\ left > 0                        \* the archive is cut short
             /\ result' = "error" /\ pc' = "done"
             /\ UNCHANGED <<contents, offset, consumed>>
       /\ UNCHANGED <<image, op, stored, mediaType, platforms, layers, content,
                      data, repo, layer, entry, readFailed,
                      li, visited, layerMT, added>>

\* What WalkFilesInImage and AddLayerToImage leave alone.
WalkVars == <<image, op, stored, mediaType, platforms, layers, content, data,
              contents, offset, consumed, repo, layer, layerMT, added>>

\* image.Layers() returns the pulled image's layers, or fails; the walk
\* starts at i = len(layers) - 1 (li = i + 1).
WalkStart ==
    /\ pc = "start" /\ op = "walk"
    /\ \/ li' = Len(layers) /\ pc' = "walkLayer" /\ UNCHANGED result
       \/ result' = "error" /\ pc' = "done" /\ UNCHANGED li
    /\ UNCHANGED <<entry, visited, readFailed, WalkVars>>

\* Mutation of the walk's loop condition: i > 0, the bottom layer skipped.
LayersLeftOffByOne(i) == i > 1

\* The loop condition i >= 0, with li = i + 1.
LayersLeft(i) == i >= 1

\* The next layer's Uncompressed() reader, which may fail; once no layer is
\* left the walk returns err, the nil error of image.Layers().
WalkLayer ==
    /\ pc = "walkLayer"
    /\ \/ /\ ~LayersLeft(li)
          /\ result' = "walked" /\ pc' = "done" /\ UNCHANGED entry
       \/ /\ LayersLeft(li)
          /\ pc' = "walkNext" /\ entry' = 1 /\ UNCHANGED result
       \/ /\ LayersLeft(li)
          /\ result' = "error" /\ pc' = "done" /\ UNCHANGED entry
    /\ UNCHANGED <<li, visited, readFailed, WalkVars>>

\* tarreader.Next(): io.EOF and a header that cannot be read (header ==
\* nil) alike break to the next layer; a file is passed to fn, whose error
\* ends the walk ("died processing file").
WalkNext ==
    LET tar == content[layers[li]]
    IN /\ pc = "walkNext"
       /\ \/ /\ entry > Len(tar)
             /\ li' = li - 1 /\ pc' = "walkLayer"
             /\ UNCHANGED <<entry, visited, readFailed, result>>
          \/ /\ entry <= Len(tar)
             /\ readFailed' = TRUE
             /\ li' = li - 1 /\ pc' = "walkLayer"
             /\ UNCHANGED <<entry, visited, result>>
          \/ /\ entry <= Len(tar) /\ tar[entry] # "corrupt"
             /\ visited' = Append(visited, <<li, entry>>)
             /\ \/ entry' = entry + 1 /\ UNCHANGED <<pc, result>>
                \/ result' = "error" /\ pc' = "done" /\ UNCHANGED entry
             /\ UNCHANGED <<li, readFailed>>
       /\ UNCHANGED WalkVars

\* GetLayerMediaType: layers[len(layers)-1].MediaType().
GetLayerMediaType(ls) == layerMT[ls[Len(ls)]]

\* AddLayerToImage: image.Layers() (in GetLayerMediaType),
\* tarball.LayerFromFile with that media type and mutate.AppendLayers each
\* may fail; the result gets the image's own media type back.
AddLayerToImage ==
    /\ pc = "start" /\ op = "addLayer"
    /\ pc' = "done"
    /\ \/ /\ added' = [below |-> layers, topMT |-> GetLayerMediaType(layers),
                       mediaType |-> mediaType]
          /\ result' = "added"
       \/ result' = "error" /\ UNCHANGED added
    /\ UNCHANGED <<image, op, stored, mediaType, platforms, layers, content,
                   data, contents, offset, consumed, repo, layer, entry,
                   readFailed, li, visited, layerMT>>

Next == GetPullOptions \/ GetManifest \/ GetArchManifest \/ ManifestDone
        \/ GetLayerByDigest \/ Uncompress \/ NextHeader \/ ReadChunk
        \/ WalkStart \/ WalkLayer \/ WalkNext \/ AddLayerToImage

Spec == Init /\ [][Next]_vars

-----------------------------------------------------------------------------
(* Properties                                                              *)

\* The reference names a registry host with a port (host:5000/...).
HasRegistryPort(s) == \E h \in Hosts \ {<<>>} : IsPrefix(h, s)

\* ImageExists answers the question asked: for a reference without a
\* registry port, tagged or digested, single- or multi-arch, an answer that
\* is not an error is "exists" exactly when the registry holds the image
\* (sign's ShouldSync skips or starts the sign Job on it), however the
\* registry fails on the way.
ImageExistsAnswersExactly ==
    result \in {"exists", "absent"} /\ ~HasRegistryPort(image)
        => (result = "exists" <=> stored)

\* The image's top layer (the last of its, or its arch's, manifest) holds
\* the module file.
ModuleInImage == \E i \in DOMAIN content[Last(layers)] :
                    content[Last(layers)][i] = "module"

\* LastLayer then VerifyModuleExists answers for the image's top layer:
\* "found" only when that layer holds the module file, and "not found",
\* when nothing failed to read, only when it does not (through manifest
\* lists, registry errors and archives where the file is not first).
VerifyAnswersForTopLayer ==
    /\ result = "found" => ModuleInImage
    /\ result = "notFound" /\ ~readFailed => ~ModuleInImage

\* ImageExists answers "absent" (false, nil) only for an image the registry
\* does not hold: the Module reconciler starts a build on that answer.
AbsentMeansNotStored == result = "absent" => ~stored

\* LastLayer of any image the registry serves returns its top layer or an
\* error; it never panics the controller, whatever the manifest's media
\* type (registry.go LastLayer, getManifestStreamFromImage).
LastLayerNeverPanics == result # "panic"

\* ExtractBytesFromTar returns exactly the bytes of the tar entry, however
\* the reader splits them over short reads, an empty entry included: each
\* read lands at the current offset, and the bytes that come with io.EOF
\* are kept.
ExtractedIsEntry == result = "extracted" => contents = data

\* The files of the image, top layer first, each layer's in archive order.
WalkOrder ==
    FlattenSeq([j \in 1..Len(layers) |->
                  LET i == Len(layers) + 1 - j
                  IN [e \in 1..Len(content[layers[i]]) |-> <<i, e>>]])

\* WalkFilesInImage calls fn on the image's files top layer first (the
\* order in which a file of an upper layer shadows a lower one), each file
\* once, and returns nil only after it has called fn on every file of
\* every layer, as long as no tar header failed to read (a failed read
\* breaks out of the layer as if it ended: registry.go:352).
WalkVisitsEveryFile ==
    /\ ~readFailed => IsPrefix(visited, WalkOrder)
    /\ result = "walked" /\ ~readFailed => visited = WalkOrder
=============================================================================
