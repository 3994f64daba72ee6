----------------------------- MODULE MCDeletion -----------------------------
(* The instances of Deletion: two messages of one thread or of two, two slots of     *)
(* one folder or of two.                                                       *)
EXTENDS Deletion, TLC

CONSTANTS a, b, s, t, inbox, label, one, two

Apart     == (s :> inbox) @@ (t :> label)
Together  == (s :> inbox) @@ (t :> inbox)
OneThread == (a :> one) @@ (b :> one)
TwoThreads == (a :> one) @@ (b :> two)
BothMail  == (s :> a) @@ (t :> b)
FirstMail == (s :> a) @@ (t :> None)

OneFolder == s :> inbox
OneMail   == s :> a
Single    == a :> one
=============================================================================
