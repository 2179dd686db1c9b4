---------------------------- MODULE MC_Generate ----------------------------
(* Generate for TLC: command lines, tokenizers and texts.                  *)
EXTENDS Generate, TLC

\* Tokens: 0 BOS, 1 <|eot_id|>, 2 <|end_of_text|>, 3 and 4 ordinary.
SpecialIds == [start_header |-> 3, end_header |-> 3, eot |-> 1, end_of_text |-> 2]

Instruct  == [BOS |-> 0, EOS |-> 1, id |-> SpecialIds]
NoHeaders == [BOS |-> 0, EOS |-> 1,
              id |-> [start_header |-> -1, end_header |-> -1, eot |-> -1, end_of_text |-> -1]]
MCTokenizers == {Instruct, NoHeaders}

\* One token for each role and for two newlines, some for the prompts.
MCEncode(t) ==
  CASE t = "short" -> <<4>>
    [] t = "long"  -> <<3, 4, 3>>
    [] OTHER       -> <<4>>

Cmd(prompt, system, raw, m, ctx) ==
  [prompt |-> prompt, system |-> system, raw |-> raw, n |-> m, ctx |-> ctx]

\* Raw prompts of 2 and 4 tokens, chat prompts of 10 and 15.
Fitting ==
  {Cmd(p, "none", TRUE, m, ctx) : p \in {"short", "long"}, m \in 0 .. 3, ctx \in 3 .. 5}
  \cup {Cmd("short", "none", FALSE, m, 12) : m \in {-1, 0, 1, 2, 3}}
  \cup {Cmd("short", "rules", FALSE, m, ctx) : m \in {0, 2}, ctx \in {0, 14, 15, 16, 31}}
  \cup {Cmd("long", "none", TRUE, m, 4) : m \in {-1, 0, 1}}
TooLong == {Cmd("long", "none", TRUE, m, ctx) : m \in {-1, 0, 1, 2}, ctx \in 1 .. 3}
TooMany == {Cmd("short", "none", TRUE, m, 4) : m \in 29 .. 31}

AllCommands == Fitting \cup TooLong \cup TooMany
=============================================================================
