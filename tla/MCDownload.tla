------------------------------ MODULE MCDownload ------------------------------
(* Instances of Download: every method and every way to configure the      *)
(* sites, or a plain download as two parallel builds do it.                *)
EXTENDS Download

(* Without BR2_PRIMARY_SITE there is nothing BR2_PRIMARY_SITE_ONLY could   *)
(* restrict the download to.                                               *)
AllSites == {c \in SiteConfig : c.only => c.primary # "none"}

(* One build with three faults; two builds with wget and no fault. *)
OneBuild == [builds |-> {"b1"}, sites |-> AllSites, faults |-> 3]

WgetSites == {c \in AllSites : c.scheme = "wget" /\ c.primary # "scp"}

TwoBuilds == [builds |-> {"b1", "b2"}, sites |-> WgetSites, faults |-> 0]

AllScenarios == {OneBuild, TwoBuilds}
Parallel == {TwoBuilds}
===============================================================================
