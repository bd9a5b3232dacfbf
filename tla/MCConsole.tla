----------------------------- MODULE MCConsole -----------------------------
(* An instance of Console: a new console, one with two saved networks whose
   config.ini names one of them and, from an older release, an id, and one with
   such an id and another network saved. *)
EXTENDS Console

CONSTANTS a, b

Disk(config, saved) == [config |-> config, saved |-> saved]
Saved(n)            == <<Line("section", n), Line("nwid", n)>>
OwnLine(k, v)       == <<Line("section", Own), Line(k, v)>>

MCDisks ==
    {Disk(None, None),
     Disk(OwnLine("nwid", a) \o <<Line("network", b)>>, Saved(a) \o Saved(b)),
     Disk(OwnLine("nwid", a), Saved(b))}
=============================================================================
