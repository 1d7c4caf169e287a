------------------------------ MODULE MCDevices ------------------------------
(***************************************************************************)
(* The instance of DeviceParts TLC checks.                                 *)
(*                                                                         *)
(* Watcher: two devices, two changes and one failed listing, so that a     *)
(* device can go and come back between two polls and a failed listing can  *)
(* hide one that stays; a channel that holds two events, fewer than one    *)
(* poll can send.  Listing: names that contain one another, an input that  *)
(* is a monitor, a device without configurations; the hosts of each        *)
(* platform.  Opening: formats with and without a name in the core, ranges *)
(* that share a rate or a channel count but not both, rings that are not   *)
(* whole frames, a device that goes at any question.  Session: two         *)
(* threads, and every decision of the user.  Monitor: a stream of a few    *)
(* frames.                                                                 *)
(***************************************************************************)
EXTENDS DeviceParts

Offer(channels, low, high, fmt) == [channels |-> channels, low |-> low, high |-> high, format |-> fmt]

Sound == [outs |-> <<Offer(2, 44100, 48000, "I16"), Offer(2, 8000, 48000, "F32"), Offer(1, 8000, 8000, "I16")>>,
          ins  |-> <<Offer(1, 8000, 48000, "I16")>>, out |-> "F32", in |-> "I16"]
Studio == [outs |-> <<Offer(3, 11025, 11025, "I24"), Offer(3, 11025, 11025, "U24")>>,
           ins  |-> <<Offer(3, 11025, 11025, "U8"), Offer(3, 8000, 11025, "I32")>>,
           out  |-> "U24", in |-> "I32"]
Both == [Studio EXCEPT !.outs = <<Offer(3, 11025, 11025, "F64")>>, !.out = "F64"]
MCModels == {Sound, Studio, Both}

StreamConfig(rate, channels, hint, preferred, capacity, secs) ==
    [rate |-> rate, channels |-> channels, sample_format |-> hint, preferred |-> preferred,
     capacity |-> capacity, secs |-> secs]
MCConfigs ==
    {StreamConfig(48000, 2, None, <<"U8", "F32", "I16">>, None, 5),
     StreamConfig(8000, 2, "F64", <<"F64">>, 5, 400),
     StreamConfig(8000, 1, None, <<>>, 400, 1),
     StreamConfig(44100, 1, None, <<>>, None, 1),
     StreamConfig(11025, 3, None, <<"I32">>, 1, 1),
     StreamConfig(11025, 3, "F64", <<>>, 1, 1)}

Named(name, out, in) == [name |-> name, out |-> out, in |-> in]
MCCatalogue ==
    {Named("speakers", TRUE, FALSE), Named("speakers 2", TRUE, FALSE),
     Named("monitor of speakers", FALSE, TRUE), Named("hdmi", FALSE, FALSE)}
MCContaining ==
    {<<d.name, d.name>> : d \in MCCatalogue} \cup
    {<<"speakers 2", "speakers">>, <<"monitor of speakers", "speakers">>,
     <<"monitor of speakers", "monitor">>}
MCPlatforms == {"macos", "windows", "linux", "bsd", "android"}

Build(os, session, avf) == [os |-> os, session |-> session, avf |-> avf]
MCBuilds == {Build("ios", TRUE, TRUE), Build("macos", TRUE, FALSE), Build("other", FALSE, FALSE)}

-----------------------------------------------------------------------------
\* A part that stands still has one initial state.
DevicesInit ==
    /\ PartsInit
    /\ part = "watch" \/ present = {}
    /\ part = "open" \/ (device = Sound /\ attached /\ config.rate = 44100 /\ kind = "output")
    /\ part = "choose" \/ platform = "linux"
    /\ part = "session" \/ (build.os = "ios" /\ permission = "denied")

\* PartsSpec from these states, with the fairness of the watcher's thread.
DevicesSpec ==
    /\ DevicesInit /\ [][PartsNext]_partsVars
    /\ WF_vars(part = "watch" /\ Poll) /\ WF_vars(part = "watch" /\ Join)
==============================================================================
