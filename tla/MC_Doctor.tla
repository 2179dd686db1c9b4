----------------------------- MODULE MC_Doctor -----------------------------
(* Doctor for TLC: stores with models of every kind, and machines that lack *)
(* one thing or two.                                                        *)
EXTENDS Doctor, TLC

NamesMC == {"manifests", "registry.ollama.ai", "library", "blobs", "home", "models", "work", "notes",
            "llama", "qwen", "new", "user", "latest", "1b", "sha256-1", "sha256-2", "sha256-3"}
             \cup {"llama:1b", "qwen:latest"}
StoreMC == <<"home", "models">>
BlobMC(d) == CASE d = "sha256:1" -> "sha256-1" [] d = "sha256:2" -> "sha256-2" [] OTHER -> "sha256-3"

WorkDirMC == <<"work">>
FileNameMC(name, tag) == IF tag = "" THEN name ELSE name \o ":" \o tag

Machine  == {{}} \cup {{c} : c \in Calls} \cup {{"meminfo", "memory"}, {"module", "memory"}}

Config(d) == Layer("config", d)
Model(d)  == Layer("model", d)

Dirs(ds) == [p \in ds |-> Directory]
OfUser == Dirs({Space("user"), Append(Space("user"), "llama")})
Base == Dirs({Registry, Library, Append(Library, "llama"), Append(Library, "qwen")})
Blobs == (Blob("sha256:1") :> File("gguf", <<>>, "llama")) @@ (Blob("sha256:2") :> File("gguf", <<>>, "qwen2"))
           @@ (Blob("sha256:3") :> File("truncated", <<>>, "?"))

Llama == Official("llama", "latest")
Small == Official("llama", "1b")
Qwen  == Official("qwen", "latest")
Users == [Llama EXCEPT !.space = "user"]
Put(m, layers) == (Tagged(m) :> Manifest(layers))

StoresMC ==
  { Dirs({StoreMC}),                                                    \* no ollama
    Dirs({Registry, Library}),                                          \* no models
    Base @@ Blobs @@ Put(Llama, <<Config("sha256:2"), Model("sha256:1")>>) @@ Put(Qwen, <<Model("sha256:2")>>),
    \* two names for one blob, and one that was cut short
    Base @@ Blobs @@ Put(Llama, <<Model("sha256:3")>>) @@ Put(Small, <<Model("sha256:1")>>) @@ Put(Qwen, <<Model("sha256:1")>>),
    \* no model layer; a blob that is not there; a file among the directories
    Base @@ (Blob("sha256:1") :> File("gguf", <<>>, "llama")) @@ Put(Llama, <<Config("sha256:2")>>)
      @@ Put(Small, <<Model("sha256:1")>>) @@ Put(Qwen, <<Model("sha256:2")>>)
      @@ (Append(Library, "notes") :> File("other", <<>>, "?")),
    \* a directory, and model files, of a model's name in the working directory
    Base @@ Blobs @@ Put(Llama, <<Model("sha256:1")>>) @@ (Here("llama", "") :> Directory),
    Base @@ Blobs @@ Put(Qwen, <<Model("sha256:2")>>) @@ (Here("qwen", "latest") :> File("gguf", <<>>, "llama")),
    Base @@ Blobs @@ Put(Small, <<Model("sha256:2")>>) @@ (Here("llama", "1b") :> File("gguf", <<>>, "llama")),
    \* a model of a user, with the blob of one of the library
    Base @@ OfUser @@ Blobs @@ Put(Llama, <<Model("sha256:1")>>) @@ Put(Users, <<Model("sha256:1")>>) }

PullsMC == {[space |-> "library", name |-> "qwen", tag |-> "latest", digest |-> "sha256:1", arch |-> "llama"],
            [space |-> "user", name |-> "new", tag |-> "latest", digest |-> "sha256:2", arch |-> "qwen2"]}
=============================================================================
