----------------------------- MODULE MC_Forward -----------------------------
(* Forward for TLC: the kernels build terms, so two values are equal only  *)
(* when they were computed in the same way from the same inputs.           *)
EXTENDS Forward

TermEmbed(tok)        == <<"embed", tok>>
TermRMSNorm(w, x)     == <<"rmsnorm", w, x>>
TermMatVec(w, x)      == <<"matvec", w, x>>
TermRoPE(x, p)        == <<"rope", x, p>>
TermAttend(q, ks, vs) == <<"attend", q, ks, vs>>
TermAdd(x, o)         == <<"add", x, o>>
TermSiluMul(g, u)     == <<"silumul", g, u>>

UndefTerm   == <<"undef">>
NoAnswerTerm == <<"none">>
FailureTerm == <<"error">>
=============================================================================
