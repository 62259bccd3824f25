---------------------------- MODULE MCIncidents ----------------------------
\* One task beside the incident loop; a group of two instances, one of them warm,
\* that has one or two enabled variants, on a host with room for three.
EXTENDS Incidents
=============================================================================
