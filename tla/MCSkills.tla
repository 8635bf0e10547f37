------------------------------ MODULE MCSkills ------------------------------
(***************************************************************************)
(* A channel skill in small: every kind of directive, the bodies of two    *)
(* lines where the engine treats the first apart from the rest.            *)
(***************************************************************************)
EXTENDS Skills

Plain(it) == [it |-> it, needs |-> {}]
With(it, var) == [it |-> it, needs |-> {var}]
Always(kind, items) == [kind |-> kind, items |-> items, when |-> {}]
When(var, is, kind, items) == [kind |-> kind, items |-> items, when |-> {[var |-> var, is |-> is]}]

MCScript == <<
  Always("prompt", <<Plain("token")>>),
  Always("copy", <<Plain("f1"), Plain("f2")>>),
  Always("fetch", <<Plain("g1"), Plain("g2")>>),
  Always("append", <<Plain("l1"), Plain("l2")>>),
  Always("json-merge", <<Plain("j")>>),
  Always("dep", <<Plain("p1"), Plain("p2")>>),
  Always("env-set", <<Plain("k1"), With("k2", "token")>>),
  When("token", "local", "external", <<Plain("x")>>),
  When("token", "remote", "unknown", <<Plain("u")>>),
  Always("check", <<With("ok", "token")>>),
  Always("capture", <<With("owner", "token")>>),
  Always("restart", <<Plain("service")>>),
  Always("step", <<Plain("pairing")>>),
  Always("operator", <<With("howto", "owner")>>),
  Always("wire", <<With("group", "owner")>>) >>
=============================================================================
