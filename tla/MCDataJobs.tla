----------------------------- MODULE MCDataJobs -----------------------------
EXTENDS DataJobs

(* Every source, with the faults under which it keeps its promises, and the
   faults under which only some of them hold. *)
MCSourceSets ==
    ({"usgs", "arxiv"} \X {{"overlap", "crash"}, {"overlap"}})
    \cup ({"noaa", "copernicus", "gdelt"} \X {{}})
    \cup {<<"usgs", {"cache"}>>, <<"era5", {"crash"}>>, <<"era5", {}>>, <<"arxiv", {"crash"}>>,
          <<"copernicus", {"station", "slow"}>>, <<"gdelt", {"late", "burst"}>>}

MCMineSets == {{"crash"}, {"overlap"}}
=============================================================================
