------------------------- MODULE MCProviderClients -------------------------
(* TLC instance of ProviderClients: two persons and an X profile. *)
EXTENDS ProviderClients

TheAccounts == 1 .. 3
TheKindOf == <<"person", "person", "profile">>

\* Apify tokens first, as bootstrap_runtime orders them.
BothSources == [drivers |-> <<"apify", "apifyx", "apify", "apifyx", "brightdata">>,
                registered |-> {"apify", "apifyx", "brightdata"}]
TwoBrightData == [drivers |-> <<"brightdata", "brightdata">>,
                  registered |-> {"brightdata"}]
TheSetups == {BothSources, TwoBrightData}
OnlyBrightData == {TwoBrightData}

LostApifyStarts == {"apify", "apifyx"}
LostTriggers == {"brightdata"}
NoDriver == {}

OneBad == {2}
NoneBad == {}
=============================================================================
