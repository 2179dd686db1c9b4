------------------------------- MODULE Doctor -------------------------------
(***************************************************************************)
(* gollama doctor (cmd/gollama/doctor.go), with gpu.Load and the look-ups  *)
(* of package ollama, while ollama pulls and removes models: what is       *)
(* missing is counted, the models of the store are listed, and the verdict *)
(* is whether models run.                                                  *)
(***************************************************************************)
EXTENDS Ollama, FiniteSets

CONSTANTS
  Machines,      \* sets of the calls that fail
  Stores,        \* file systems to begin with
  Pulls,         \* what may be pulled: [space, name, tag, digest, arch]
  MaxChanges,    \* bound: files that ollama adds or removes meanwhile
  WorkDir,       \* the working directory
  FileName(_, _) \* name:tag as a file name, or name without a tag

\* cuda.Init, GetDevice, Primary, LoadModule, Function, MemInfo; and too
\* little free memory.
Calls == {"driver", "device", "context", "module", "function", "meminfo", "memory"}

Within(path, dir) == Len(path) > Len(dir) /\ SubSeq(path, 1, Len(dir)) = dir

\* The registry is a tree, and the layers of a manifest are numbered.
FileSystem(s) ==
  /\ DOMAIN s \subseteq Seq(Names) \ {NoPath}
  /\ \A p \in DOMAIN s : /\ s[p].kind \in Kinds /\ DOMAIN s[p].layers \subseteq Nat
                         /\ Within(p, Registry) =>
                              LET dir == SubSeq(p, 1, Len(p) - 1) IN dir \in DOMAIN s /\ s[dir].kind = "dir"

\* doctor is not run in a directory of the store.
ASSUME DoctorAssumption ==
  /\ \A m \in Machines : m \subseteq Calls
  /\ \A s \in Stores : FileSystem(s)
  /\ \A p \in Pulls : {p.space, p.name, p.tag, BlobName(p.digest)} \subseteq Names
  /\ MaxChanges \in Nat
  /\ WorkDir \in Seq(Names) /\ ~Within(WorkDir, Store)

VARIABLES
  fails,      \* the machine, fixed
  fs, changes, touched,   \* the file system; files changed, and of which models
  pc,
  missing,
  open,       \* what has been acquired and not released
  names,      \* directories of the library to read
  tags,       \* models of the directory at hand to look up
  at,         \* the model at hand and its path
  runnable, other,
  ok          \* whether doctor returns nil

machineVars == <<fails, missing, open>>
storeVars   == <<fs, changes, touched>>
listVars    == <<names, tags, at, runnable, other>>
vars        == <<machineVars, storeVars, listVars, pc, ok>>

Init ==
  /\ fails \in Machines /\ fs \in Stores
  /\ changes = 0 /\ touched = {}
  /\ pc = "driver" /\ missing = 0 /\ open = <<>> /\ ok = FALSE
  /\ names = {} /\ tags = {} /\ runnable = {} /\ other = {}
  /\ at = [model |-> <<>>, path |-> NoPath]

-----------------------------------------------------------------------------
(* The driver, the GPU and the kernels.                                    *)

Push(r) == open' = Append(open, r)
Pop     == open' = SubSeq(open, 1, Len(open) - 1)

Report(good) == missing' = IF good THEN missing ELSE missing + 1

\* What follows a call that succeeds, or fails: each check needs the one before.
Then(c) == CASE c = "driver" -> "device" [] c = "device" -> "context"
             [] c = "context" -> "module" [] c = "module" -> "function"
Else(c) == IF c = "module" THEN "meminfo" ELSE "models"

\* cuda.Init, GetDevice, dev.Primary, and LoadModule in gpu.Load
CheckCall ==
  /\ pc \in {"driver", "device", "context", "module"}
  /\ Report(pc \notin fails)
  /\ pc' = IF pc \in fails THEN Else(pc) ELSE Then(pc)
  /\ IF pc \in {"context", "module"} \ fails THEN Push(pc) ELSE UNCHANGED open
  /\ UNCHANGED <<fails, storeVars, listVars, ok>>

\* The module stays loaded when a kernel is missing.
LoadKeepsModule ==
  /\ pc = "function"
  /\ Report(pc \notin fails)
  /\ IF pc \in fails THEN UNCHANGED open ELSE Pop
  /\ pc' = "meminfo"
  /\ UNCHANGED <<fails, storeVars, listVars, ok>>

\* gpu.Load: each of the kernels, closing the module when one is missing;
\* doctor closes the kernels.
LookUpKernels ==
  /\ pc = "function"
  /\ Report(pc \notin fails)
  /\ Pop
  /\ pc' = "meminfo"
  /\ UNCHANGED <<fails, storeVars, listVars, ok>>

\* Memory that cannot be read is reported as too little.
CheckMemoryStrict ==
  /\ pc = "meminfo"
  /\ Report(fails \cap {"meminfo", "memory"} = {})
  /\ Pop
  /\ pc' = "models"
  /\ UNCHANGED <<fails, storeVars, listVars, ok>>

\* ctx.MemInfo, whose failure is not reported; ctx.Close
CheckMemory ==
  /\ pc = "meminfo"
  /\ Report("meminfo" \in fails \/ "memory" \notin fails)
  /\ Pop
  /\ pc' = "models"
  /\ UNCHANGED <<fails, storeVars, listVars, ok>>

-----------------------------------------------------------------------------
(* ollamaModels                                                            *)

IsDir(path)    == path \in DOMAIN fs /\ fs[path].kind = "dir"
Entries(path)  == {q[Len(q)] : q \in {p \in DOMAIN fs : Len(p) = Len(path) + 1 /\ SubSeq(p, 1, Len(path)) = path}}
ReadDir(path)  == IF IsDir(path) THEN Entries(path) ELSE {}

\* A model of the store has a namespace, a name and a tag.
Official(name, tag) == [space |-> "library", name |-> name, tag |-> tag]

\* The path of name:tag in the working directory.
Here(name, tag) == Append(WorkDir, FileName(name, tag))

\* A reference is name:tag or, outside the library, space/name:tag; a name has
\* no colon.
RefAs(model, tag) ==
  IF model.space = "library"
  THEN [here |-> Here(model.name, tag), name |-> <<model.name>>, tag |-> tag]
  ELSE [here |-> WorkDir \o <<model.space, FileName(model.name, tag)>>,
        name |-> <<model.space, model.name>>, tag |-> tag]

Ref(model) == RefAs(model, model.tag)

\* As it is printed: strings.TrimSuffix(ref, ":latest")
Short(model) == RefAs(model, IF model.tag = "latest" THEN "" ELSE model.tag)

ReadLibrary ==
  /\ pc = "models"
  /\ Report(IsDir(Library))
  /\ names' = ReadDir(Library)
  /\ pc' = IF IsDir(Library) THEN "names" ELSE "verdict"
  /\ UNCHANGED <<fails, open, storeVars, tags, at, runnable, other, ok>>

\* The order, which the sort at the end removes, is left open.
ReadTags ==
  /\ pc = "names" /\ tags = {}
  /\ \E e \in names :
       /\ names' = names \ {e}
       /\ tags' = {Official(e, t) : t \in ReadDir(Append(Library, e))}
  /\ UNCHANGED <<machineVars, storeVars, at, runnable, other, pc, ok>>

\* A model that does not resolve ends the list.
ResolveOrStop ==
  /\ pc = "names"
  /\ \E model \in tags :
       LET path == Resolve(fs, Ref(model)) IN
       /\ at' = [model |-> model, path |-> path]
       /\ IF path = NoPath THEN tags' = {} /\ UNCHANGED pc ELSE tags' = tags \ {model} /\ pc' = "open"
  /\ UNCHANGED <<machineVars, storeVars, names, runnable, other, ok>>

\* ollama.Resolve(ref), else continue
ResolveModel ==
  /\ pc = "names"
  /\ \E model \in tags :
       LET path == Resolve(fs, Ref(model)) IN
       /\ at' = [model |-> model, path |-> path]
       /\ tags' = tags \ {model}
       /\ pc' = IF path = NoPath THEN pc ELSE "open"
  /\ UNCHANGED <<machineVars, storeVars, names, runnable, other, ok>>

\* gguf.Open(path), else continue: what does not parse is unmapped at once
OpenModel ==
  /\ pc = "open"
  /\ IF at.path \in DOMAIN fs /\ fs[at.path].kind = "gguf"
     THEN /\ Push("file")
          /\ pc' = IF fs[at.path].arch = "llama" THEN "llama" ELSE "foreign"
     ELSE pc' = "names" /\ UNCHANGED open
  /\ UNCHANGED <<fails, missing, storeVars, listVars, ok>>

\* f.Close, and the model is listed.
ListModel ==
  /\ pc \in {"llama", "foreign"}
  /\ Pop
  /\ runnable' = IF pc = "llama" THEN runnable \cup {at.model} ELSE runnable
  /\ other' = IF pc = "foreign" THEN other \cup {at.model} ELSE other
  /\ pc' = "names"
  /\ UNCHANGED <<fails, missing, storeVars, names, tags, at, ok>>

ReportModels ==
  /\ pc = "names" /\ names = {} /\ tags = {}
  /\ Report(runnable # {})
  /\ pc' = "verdict"
  /\ UNCHANGED <<fails, open, storeVars, listVars, ok>>

\* The tools that regenerate the kernels are not needed to run.
Return ==
  /\ pc = "verdict"
  /\ ok' = (missing = 0) /\ pc' = "done"
  /\ UNCHANGED <<machineVars, storeVars, listVars>>

DoctorNext ==
  \/ CheckCall \/ LookUpKernels \/ CheckMemory
  \/ ReadLibrary \/ ReadTags \/ ResolveModel \/ OpenModel \/ ListModel \/ ReportModels \/ Return

-----------------------------------------------------------------------------
(* ollama: a blob is there before the manifest that names it, and removed   *)
(* after it.                                                               *)

Blob(digest)     == Store \o <<"blobs", BlobName(digest)>>
Tagged(model)    == Space(model.space) \o <<model.name, model.tag>>
Models           == {m \in {[space |-> p[Len(p) - 2], name |-> p[Len(p) - 1], tag |-> p[Len(p)]] :
                               p \in {q \in DOMAIN fs : Len(q) > 4}} :
                       Tagged(m) \in DOMAIN fs /\ fs[Tagged(m)].kind = "manifest"}
BlobsOf(model)     == {Blob(fs[Tagged(model)].layers[k].digest) : k \in DOMAIN fs[Tagged(model)].layers}

Change(models) == changes < MaxChanges /\ changes' = changes + 1 /\ touched' = touched \cup models

PullBlob == \E p \in Pulls :
  /\ Change({m \in Models : Blob(p.digest) \in BlobsOf(m)})
  /\ Blob(p.digest) \notin DOMAIN fs
  /\ fs' = [q \in DOMAIN fs \cup {Blob(p.digest)} |->
              IF q = Blob(p.digest) THEN File("gguf", <<>>, p.arch) ELSE fs[q]]

PullManifest == \E p \in Pulls :
  LET model == [space |-> p.space, name |-> p.name, tag |-> p.tag]
      dir   == Append(Space(p.space), p.name)
  IN
  /\ Change({model})
  /\ IsDir(Space(p.space)) /\ Blob(p.digest) \in DOMAIN fs /\ Tagged(model) \notin DOMAIN fs
  /\ fs' = [q \in DOMAIN fs \cup {dir, Tagged(model)} |->
              CASE q = Tagged(model) -> Manifest(<<Layer("model", p.digest)>>)
                [] q = dir -> Directory
                [] OTHER -> fs[q]]

RemoveModel == \E m \in Models :
  LET only == BlobsOf(m) \ UNION {BlobsOf(o) : o \in Models \ {m}} IN
  /\ Change({m})
  /\ \E gone \in SUBSET only : fs' = [q \in DOMAIN fs \ (gone \cup {Tagged(m)}) |-> fs[q]]

OllamaNext == (PullBlob \/ PullManifest \/ RemoveModel) /\ UNCHANGED <<machineVars, listVars, pc, ok>>

Next == DoctorNext \/ OllamaNext

Spec == Init /\ [][Next]_vars

-----------------------------------------------------------------------------
(* Properties                                                              *)

\* Whether the file of a reference can be run.
Runs(ref) == LET path == Resolve(fs, ref) IN
  path \in DOMAIN fs /\ fs[path].kind = "gguf" /\ fs[path].arch = "llama"

\* "doctor: %d problem(s) prevent running models": it returns nil exactly when
\* every call run will make before it loads a model succeeds and the list of
\* models that can be run, which is of the library only, is not empty, although
\* the checks stop early and nest, and some failures are not counted.
TrueVerdict ==
  pc = "done" =>
    (ok <=> /\ fails \cap {"driver", "device", "context", "module", "function"} = {}
            /\ "meminfo" \in fails \/ "memory" \notin fails
            /\ runnable # {})

\* "those gollama can run": a model listed runs under the name printed, unless
\* it has been changed since or a file of the working directory has that name,
\* with its tag or as it is printed.
ListedRuns ==
  \A m \in runnable \ touched : {Ref(m).here, Short(m).here} \cap DOMAIN fs = {} => Runs(Short(m))

\* Every model of the library that can be run is listed, unless a file of the
\* working directory has its name and is looked at in its place, whatever is
\* wrong with the others and whatever ollama does to them meanwhile. A model of
\* another namespace is never listed, although run takes user/model and
\* doctor.go:119 speaks of "the models of the ollama store".
ListsLibrary ==
  pc = "done" /\ IsDir(Library) =>
    \A m \in Models \ touched :
      m.space = "library" /\ Ref(m).here \notin DOMAIN fs /\ Runs(Ref(m)) => m \in runnable

\* The context, the kernels and each model file are released on every path, the
\* kernels before their context.
Released ==
  /\ open \in {<<>>, <<"context">>, <<"context", "module">>, <<"file">>}
  /\ pc = "done" => open = <<>>

\* A model of any namespace is the same file by its name, by its manifest, and,
\* for its latest tag, by the directory of its manifests: a blob that its
\* manifest names, where ollama keeps the blobs.
SameFile ==
  \A m \in Models : Ref(m).here \notin DOMAIN fs =>
    LET path == Resolve(fs, Ref(m)) IN
    /\ path \in {NoPath} \cup BlobsOf(m)
    /\ path = Resolve(fs, [Ref(m) EXCEPT !.here = Tagged(m)])
    /\ m.tag = "latest" => path = Resolve(fs, [Ref(m) EXCEPT !.here = Append(Space(m.space), m.name)])

=============================================================================
