---------------------------- MODULE MCIntroSkip ----------------------------
(* Instances of IntroSkip for TLC: two episodes of a series, the first with   *)
(* chapters, the second known by its Kitsu id, and what the databases say.    *)
EXTENDS IntroSkip, TLC

CONSTANTS ep1, ep2, menu, nothing

TwoRoutes == {ep1, ep2}
SameVideo == [r \in TwoRoutes |-> r]
JustSecond == {ep2}

Seg(api, kind, start, end) == [api |-> api, kind |-> kind, start |-> start, end |-> end]

\* introdb.app has a recap of no length for the first episode and knows the second
\* one's intro.  TheIntroDb has an open outro for the first, and for the second
\* another end of the intro and credits in the first half.
TwoAnswers ==
    [api \in Apis |->
        IF api = "IntroDbApp"
        THEN (ep1 :> {{Seg(api, "Recap", 1, 1)}}) @@ (ep2 :> {{Seg(api, "Intro", 0, 1)}})
        ELSE (ep1 :> {{Seg(api, "Outro", 1, NoEnd)}}) @@
             (ep2 :> {{Seg(api, "Intro", 0, 2), Seg(api, "Outro", 0, NoEnd)}})]

OneChapter == (ep1 :> <<"Intro">>) @@ (ep2 :> <<>>)

=============================================================================
