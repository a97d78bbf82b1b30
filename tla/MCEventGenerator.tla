-------------------------- MODULE MCEventGenerator --------------------------
EXTENDS EventGenerator
CONSTANTS press, social

\* Two events of the scripted feed, on different tags, and a feed of one.
TwoEvents == <<social, press>>
OneEvent == <<press>>

\* Query strings: `?tag=press`, `?tag=social&tag=press`, and one that repeats a tag.
Filters == {<<press>>, <<social, press>>}
RepeatedTag == {<<press, press>>, <<social, press>>}
=============================================================================
