----------------------------- MODULE CpalDevices -----------------------------
(***************************************************************************)
(* Listing devices and choosing one: the three enumerations of CpalDevice, *)
(* its constructors, the selectors of the core and device_by_index() of    *)
(* the facade, while devices come and go.  A device is known by its name   *)
(* alone: what is listed is looked up again when it is opened.  A          *)
(* CpalDevice is tagged with the audio API it is said to belong to, which  *)
(* the platform the crate is built for decides.                            *)
(***************************************************************************)
EXTENDS Integers, FiniteSetsExt, SequencesExt

CONSTANTS
    None,
    Catalogue,   \* the devices there may be: [name, out, in], out and in whether it has configurations
    Containing,  \* the pairs <<name, fragment>> where the one contains the other, whatever the case
    Monitor,     \* the fragment "monitor"
    Platforms,   \* "macos", "ios", "windows", "linux", "bsd", "android", "wasm"
    MaxChanges   \* bound: devices that come or go

\* A name contains itself; the crate is built for one of these platforms.
DevicesAssumption ==
    /\ None \notin Catalogue
    /\ \A d \in Catalogue : d.name # None /\ <<d.name, d.name>> \in Containing
    /\ Platforms \subseteq {"macos", "ios", "windows", "linux", "bsd", "android", "wasm"}

VARIABLES
    platform,
    host,      \* the devices the host yields, in its order
    default,   \* the name of its default output device, or None
    mode,      \* the enumeration that is going on or was last made: "output", "input" or "all"
    scan,      \* the devices it has still to look at
    marked,    \* the name it is going to mark as the default
    listing,   \* what it has listed
    wanted,    \* the name device_by_index() has found and is looking for, or None
    index,     \* the index it was last called with for this listing, or 0
    opened,    \* the device the last call chose, None for an error
    tag,       \* the API that device is tagged with
    asked,     \* history: the API with_host() was last asked for, or None
    changes,
    steady     \* history: nothing came or went since the listing was begun

listVars == <<mode, scan, marked, listing>>
callVars == <<wanted, index, opened, tag, asked>>
vars == <<platform, host, default, listVars, callVars, changes, steady>>

Modes == {"output", "input", "all"}

WithOutput(list, d) == IF d.out THEN Append(list, d) ELSE list
WithInput(list, d)  == IF d.in THEN Append(list, d) ELSE list

\* host.output_devices(), host.input_devices() and host.devices().
Yielded(m) ==
    CASE m = "output" -> FoldLeft(WithOutput, <<>>, host)
      [] m = "input"  -> FoldLeft(WithInput, <<>>, host)
      [] m = "all"    -> host

Init ==
    /\ platform \in Platforms /\ host = <<>> /\ default = None
    /\ mode = "all" /\ scan = <<>> /\ marked = None /\ listing = <<>>
    /\ wanted = None /\ index = 0 /\ opened = None /\ tag = None /\ asked = None
    /\ changes = 0 /\ steady = TRUE

-----------------------------------------------------------------------------
(* The machine. *)

\* A device appears, before or after those there are; the host makes one of them its default.
Arrive(d) ==
    /\ changes < MaxChanges /\ d \notin ToSet(host)
    /\ host' \in {<<d>> \o host, Append(host, d)}
    /\ default' \in {default} \cup (IF d.out THEN {d.name} ELSE {})
    /\ changes' = changes + 1 /\ steady' = FALSE
    /\ UNCHANGED <<platform, listVars, callVars>>

Leave(d) ==
    /\ changes < MaxChanges
    /\ \E i \in DOMAIN host : host[i] = d /\ host' = RemoveAt(host, i)
    /\ default' \in IF default = d.name
                    THEN {None} \cup {h.name : h \in {g \in ToSet(host') : g.out}} ELSE {default}
    /\ changes' = changes + 1 /\ steady' = FALSE
    /\ UNCHANGED <<platform, listVars, callVars>>

-----------------------------------------------------------------------------
(* Audio APIs. *)

Apis == {"CoreAudio", "Wasapi", "Asio", "Alsa", "Jack", "PipeWire", "PulseAudio"}

\* default_host_api(): what every device but that of with_host() is tagged with.
DefaultHostApi ==
    CASE platform = "windows"          -> "Wasapi"
      [] platform \in {"linux", "bsd"} -> "Alsa"
      [] OTHER                         -> "CoreAudio"

\* HostApi::is_available
IsAvailable(api) ==
    CASE api = "CoreAudio" -> platform \in {"macos", "ios"}
      [] api = "Wasapi"    -> platform = "windows"
      [] api \in {"Alsa", "PulseAudio", "PipeWire"} -> platform = "linux"
      [] OTHER             -> FALSE

\* Mutant: a host of the platform is accepted for any API.
HasHostAny(api) == DefaultHostApi \in {"Wasapi", "Alsa"} \/ platform \in {"macos", "ios"}

\* with_host(): the APIs it has a host of cpal's for.
HasHost(api) ==
    \/ api = "CoreAudio" /\ platform \in {"macos", "ios"}
    \/ api = "Wasapi" /\ platform = "windows"
    \/ api = "Alsa" /\ platform \in {"linux", "bsd"}

\* A call ends with a device and its tag, or with an error.
Answer(d, api) ==
    /\ opened' = d /\ asked' = api
    /\ tag' = IF d = None THEN None ELSE IF api # None THEN api ELSE DefaultHostApi

-----------------------------------------------------------------------------
(* Listing. *)

Entry(d, out, in, isDefault) == [name |-> d.name, out |-> out, in |-> in, default |-> isDefault]

\* The default is asked for first, except by enumerate_all(), which asks for it last.
List(m) ==
    /\ scan = <<>> /\ wanted = None
    /\ mode' = m /\ scan' = Yielded(m) /\ listing' = <<>>
    /\ \/ m = "all" /\ marked' = None
       \/ m = "output" /\ marked' = default
       \/ m = "input" /\ marked' \in {d.name : d \in ToSet(Yielded("input"))} \cup {None}
    /\ steady' = TRUE /\ index' = 0
    /\ Answer(None, None) /\ UNCHANGED <<platform, host, default, wanted, changes>>

\* enumerate_all() leaves out a device whose configurations it cannot probe, one that has
\* gone since among them.
LookAll ==
    /\ mode = "all" /\ scan # <<>>
    /\ LET d == Head(scan)
           here == d \in ToSet(host) /\ (d.out \/ d.in)
           more == IF here THEN Append(listing, Entry(d, d.out, d.in, FALSE)) ELSE listing
       IN  listing' = IF Len(scan) > 1 THEN more
                      ELSE [i \in DOMAIN more |->
                               [more[i] EXCEPT !.default = more[i].out /\ more[i].name = default]]
    /\ scan' = Tail(scan)
    /\ UNCHANGED <<platform, host, default, mode, marked, callVars, changes, steady>>

\* enumerate() and enumerate_input() give up on a device that has no description any more.
LookOne ==
    /\ mode # "all" /\ scan # <<>>
    /\ LET d == Head(scan) IN
       IF d \in ToSet(host)
       THEN /\ listing' = Append(listing, Entry(d, mode = "output", mode = "input", d.name = marked))
            /\ scan' = Tail(scan)
       ELSE listing' = <<>> /\ scan' = <<>>
    /\ UNCHANGED <<platform, host, default, mode, marked, callVars, changes, steady>>

-----------------------------------------------------------------------------
(* Choosing. *)

\* The index of the default in a listing, or the first: DefaultSelector.
SelectDefault(list) ==
    LET defaults == {i \in DOMAIN list : list[i].default}
    IN  IF list = <<>> THEN None ELSE IF defaults = {} THEN 1 ELSE Min(defaults)

\* The devices of a list whose name contains the fragment, by their places.
Matches(list, fragment) == {i \in DOMAIN list : <<list[i].name, fragment>> \in Containing}

\* NameMatchSelector
SelectName(list, fragment) ==
    IF Matches(list, fragment) = {} THEN None ELSE Min(Matches(list, fragment))

\* Mutant: the last device that matches.
LastContaining(m, fragment) ==
    LET found == Matches(Yielded(m), fragment)
    IN  IF found = {} THEN None ELSE Yielded(m)[Max(found)]

\* select_output(), select_input(): the first device whose name contains the fragment.
FirstContaining(m, fragment) ==
    LET found == Matches(Yielded(m), fragment)
    IN  IF found = {} THEN None ELSE Yielded(m)[Min(found)]

\* An application has a listing of the outputs, a selector gives it an index, and it calls
\* device_by_index(), which lists them again for the name at that index.
CallByIndex ==
    /\ scan = <<>> /\ wanted = None /\ mode = "output"
    /\ \E i \in {SelectDefault(listing)} \cup {SelectName(listing, d.name) : d \in Catalogue} :
          /\ i # None /\ index' = i
          /\ IF i \in DOMAIN Yielded("output")
             THEN wanted' = Yielded("output")[i].name /\ UNCHANGED <<opened, tag, asked>>
             ELSE wanted' = None /\ Answer(None, None)
    /\ UNCHANGED <<platform, host, default, listVars, changes, steady>>

\* ... and looks for that name.
LookUp ==
    /\ wanted # None /\ wanted' = None
    /\ Answer(FirstContaining("output", wanted), None)
    /\ UNCHANGED <<platform, host, default, listVars, index, changes, steady>>

Rest == <<platform, host, default, listVars, wanted, changes, steady>>

\* open_loopback(): the first input that is the monitor of something, on Linux.
OpenLoopback ==
    /\ scan = <<>> /\ wanted = None /\ index' = 0
    /\ Answer(IF platform = "linux" THEN FirstContaining("input", Monitor) ELSE None, None)
    /\ UNCHANGED Rest

\* The device of the host that is its default output, if it is there.
TheDefault ==
    LET found == {i \in DOMAIN Yielded("output") : Yielded("output")[i].name = default}
    IN  IF found = {} THEN None ELSE Yielded("output")[Min(found)]

\* default_output()
DefaultOutput ==
    /\ scan = <<>> /\ wanted = None /\ index' = 0
    /\ Answer(TheDefault, None)
    /\ UNCHANGED Rest

\* default_input(): which of the inputs it is, is the host's affair.
DefaultInput ==
    /\ scan = <<>> /\ wanted = None /\ index' = 0
    /\ \E d \in ToSet(Yielded("input")) \cup {None} : Answer(d, None)
    /\ UNCHANGED Rest

\* with_host(): an API without a host is refused before any device is looked for.
WithHost(api) ==
    /\ scan = <<>> /\ wanted = None /\ index' = 0
    /\ Answer(IF HasHost(api) THEN TheDefault ELSE None, api)
    /\ UNCHANGED Rest

Next ==
    \/ \E d \in Catalogue : Arrive(d) \/ Leave(d)
    \/ \E m \in Modes : List(m)
    \/ LookAll \/ LookOne \/ CallByIndex \/ LookUp \/ OpenLoopback
    \/ DefaultOutput \/ DefaultInput \/ \E api \in Apis : WithHost(api)

Spec == Init /\ [][Next]_vars

-----------------------------------------------------------------------------
(* Properties. *)

\* The device an index of a listing opens is the device listed there, or, if the name of
\* one before it contains that name, the first such; provided nothing came or went
\* between the listing and the opening, each of which asks the host on its own.
IndexOpensListed ==
    (steady /\ scan = <<>> /\ wanted = None /\ mode = "output" /\ index \in DOMAIN listing
            /\ opened # None /\ opened.out)
        => \E i \in 1 .. index :
              /\ listing[i].name = opened.name
              /\ <<opened.name, listing[index].name>> \in Containing
              /\ \A j \in 1 .. i - 1 : <<listing[j].name, listing[index].name>> \notin Containing

\* An application may keep the tag of a device and ask for its host by it later: with_host()
\* accepts it and tags its device the same, but on a platform that is none of the desktop's
\* or Apple's, where every device is tagged Core Audio.  What is_available() says is there,
\* with_host() opens, but for the two sound servers of Linux; and on a BSD it opens ALSA,
\* of which is_available() does not know.
TagsNameHosts ==
    /\ opened # None => (HasHost(tag) \/ platform \in {"android", "wasm"})
    /\ opened # None /\ asked # None => tag = asked
    /\ {api \in Apis : IsAvailable(api)} \ {api \in Apis : HasHost(api)} \subseteq {"PulseAudio", "PipeWire"}
    /\ \A api \in Apis : HasHost(api) => IsAvailable(api) \/ platform = "bsd"

\* A device is the one the caller named, and so is its host.
OpensNamed == IndexOpensListed /\ TagsNameHosts
=============================================================================
