------------------------------- MODULE Ollama -------------------------------
(***************************************************************************)
(* Package ollama (ollama/ollama.go): which file a model reference names.  *)
(*                                                                         *)
(* A file system fs is a function from absolute paths to what lies there;  *)
(* a path is the sequence of its names.                                    *)
(***************************************************************************)
EXTENDS Integers, Sequences

CONSTANTS
  Names,         \* what files, directories, models and their tags are called
  Store,         \* Dir(): a path
  BlobName(_)    \* the name of a digest's blob: - for :

ASSUME NamesAssumption ==
  /\ {"manifests", "registry.ollama.ai", "library", "blobs", "latest"} \subseteq Names
  /\ "" \notin Names
  /\ Store \in Seq(Names)

Kinds == {"dir", "gguf", "truncated", "manifest", "other"}

\* A file of no kind of interest has no layers and no architecture.
File(kind, layers, arch) == [kind |-> kind, layers |-> layers, arch |-> arch]
Directory        == File("dir", <<>>, "?")
Manifest(layers) == File("manifest", layers, "?")
Layer(type, digest) == [type |-> type, digest |-> digest]

NoPath == <<>>

\* isGGUF: the first four bytes
HasMagic(file) == file.kind \in {"gguf", "truncated"}

ModelLayers(file) == {k \in DOMAIN file.layers : file.layers[k].type = "model"}

\* The first of them is the one returned.
ModelDigest(file) == file.layers[CHOOSE k \in ModelLayers(file) : \A j \in ModelLayers(file) : k <= j].digest

\* The store two directories too deep.
BesideRegistry(path) == SubSeq(path, 1, Len(path) - 4)

\* .../models/manifests/registry.ollama.ai/library/name/tag
Root(path) == SubSeq(path, 1, Len(path) - 5)

FromManifest(fs, path) ==
  IF /\ path \in DOMAIN fs /\ fs[path].kind = "manifest"
     /\ ModelLayers(fs[path]) # {}
     /\ Len(path) > 4 /\ path[Len(path) - 4] = "manifests"
  THEN Root(path) \o <<"blobs", BlobName(ModelDigest(fs[path]))>>
  ELSE NoPath

\* A reference: the path it is when it is a file name, and what it is when it
\* is not: the name before the colon, split at the slashes, and the tag after
\* it, which is empty without a colon.

\* An empty tag is kept.
TagAsGiven(ref) == ref.tag

\* if tag == "" { tag = "latest" }
TagOf(ref) == IF ref.tag = "" THEN "latest" ELSE ref.tag

Registry == Store \o <<"manifests", "registry.ollama.ai">>
Space(s) == Append(Registry, s)
Library  == Space("library")

ManifestOf(ref) ==
  (IF Len(ref.name) = 1 THEN Library ELSE Registry) \o ref.name \o <<TagOf(ref)>>

Resolve(fs, ref) ==
  IF ref.here \notin DOMAIN fs THEN FromManifest(fs, ManifestOf(ref))
  ELSE IF fs[ref.here].kind = "dir" THEN FromManifest(fs, Append(ref.here, "latest"))
  ELSE IF HasMagic(fs[ref.here]) THEN ref.here
  ELSE FromManifest(fs, ref.here)

=============================================================================
