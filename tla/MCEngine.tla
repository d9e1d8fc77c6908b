------------------------------- MODULE MCEngine -------------------------------
(***************************************************************************)
(* Values of the constants for model checking Engine.                      *)
(***************************************************************************)
EXTENDS EngineWindows, MCTraps

\* A reload that shortens the link window and changes the key of the power alarm:
\* the entry of a power failure from before it can no longer be cleared.
Rekeyed == Loaded(<<DropNoise>>,
                  <<[Link EXCEPT !.ttl = 1],
                    [Power EXCEPT !.keyFields = <<<<"source_ip">>>>]>>)

\* Forwarding and the alerts file are left out where only the store matters.
Quiet(config) == [config EXCEPT !.targets = {}, !.alerts = FALSE]

RekeyedConfigs == <<Quiet(Base), Quiet(Rekeyed)>>

SequentialPackets == {LinkDown("1"), PowerFail, PowerOK}

\* A reload that drops the faulty target, shortens the link window, has another
\* alerts file and brings in two rules that cannot be evaluated.
Reloaded == [Loaded(<<DropNoise, BadPattern>>,
                    <<[Link EXCEPT !.ttl = 1], Typo>>)
               EXCEPT !.targets = {"backup"}]

\* Two more alarms that look at linkUp: it also clears Flap, and Up counts it, with a
\* clear rule whose regex rejects it after the other two took it.
Flap == [Link EXCEPT !.id = "flap", !.match = TrapOIDIs("flap")]
Up   == [Link EXCEPT !.id = "up", !.match = TrapOIDIs("linkUp"),
                     !.clear = ClearBy(TrapOIDIs("linkUp"), <<"ifIndex">>, <<"0">>)]

\* In the order of the alarms: two Clear calls, and matchedClear reset.
Crowded == [Loaded(<<DropNoise>>, <<Link, Flap, Up>>)
              EXCEPT !.targets = {"nms", "backup"}]

TwoConfigs == <<Crowded, Reloaded>>

ConcurrentPackets == {LinkDown("1"), LinkDown("2"), LinkUp("1")}

ReloadPackets == {LinkDown("1"), LinkUp("1"), NoPort, Other, Noise, Broken,
                  Garbage}

LinkPackets == {LinkDown("1"), LinkUp("1")}
=============================================================================
