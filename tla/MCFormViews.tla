----------------------------- MODULE MCFormViews -----------------------------
(* FormViews for every form of the repository's views *)
EXTENDS FormViews, ViewsTfortis, ViewsNetwork, ViewsApps, ViewsMoreApps

AllForms == ViewsTfortisForms \o ViewsNetworkForms \o ViewsAppsForms \o ViewsMoreAppsForms
=============================================================================
