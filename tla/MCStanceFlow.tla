---------------------------- MODULE MCStanceFlow ----------------------------
(* Three agents; either two of them influence the third, or two each other. *)
(* The four rounds are the baseline, one round, the debate and one more.    *)
EXTENDS StanceFlow

To(f, t) == [from |-> f, to |-> t]

MCNetworks == {{<<"q", "p">>, <<"r", "p">>, <<"p", "p">>}, {<<"p", "q">>, <<"q", "p">>}}

\* Nothing moved; a move made and not told; a move told and not made.
MCAnswers ==
    {[stance |-> "curious", shift |-> None, objections |-> {}],
     [stance |-> "keen", shift |-> None, objections |-> {"price"}],
     [stance |-> "curious", shift |-> To("curious", "keen"), objections |-> {"price"}]}

MCShiftLists ==
    {<<>>, <<To("curious", "keen")>>, <<To("keen", "keen")>>,
     <<To("keen", "curious")>>, <<To("curious", "keen"), To("keen", "curious")>>}
=============================================================================
