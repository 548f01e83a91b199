--------------------------- MODULE MCLiveSociety ---------------------------
(* Eight results in a market with two competitors, k1 and k2.  r2 and r3 are *)
(* one page as two providers return it, r4 has the text of r1, r5 makes a    *)
(* fake claim, r7 alone names no competitor, and r8 is blank. *)
EXTENDS LiveSociety, TLC

Signal(role, dim, excerpt, objection, sure) ==
    [role |-> role, dim |-> dim, excerpt |-> excerpt,
     objection |-> objection, sure |-> sure]

MCResults == {"r1", "r2", "r3", "r4", "r5", "r6", "r7", "r8"}
MCUrl  == [r \in MCResults |-> IF r = "r3" THEN "r2" ELSE r]
MCText == [r \in MCResults |-> IF r = "r4" THEN "r1" ELSE r]

MCFound ==
  LET k1(x) == Signal("k1", "alternatives", x, "none", TRUE)
      k2(x) == Signal("k2", "alternatives", x, "none", TRUE)
      price(x) == Signal("price_skeptic", "price", x, "none", FALSE)
      trust(x) == Signal("trust_seeker", "trust", x, "none", FALSE)
      broke(x) == Signal("objection_focused", "objection", x, "broke", FALSE)
  IN  "r1" :> {k1("a"), k2("b"), price("a")} @@
      "r2" :> {k1("c"), trust("d")} @@
      "r3" :> {k2("c")} @@
      "r4" :> {k1("a"), k2("b"), price("a")} @@
      "r5" :> {k1("f"), broke("f")} @@
      "r6" :> {k2("g"), k2("h"), k1("m")} @@
      "r7" :> {price("i"), price("j"), broke("k"), trust("l")} @@
      "r8" :> {}
=============================================================================
