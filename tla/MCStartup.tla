------------------------------ MODULE MCStartup ------------------------------
(* Values for the constants of Startup.                                     *)
EXTENDS Startup

CONSTANTS sqlite, postgres

(* Every way the environment, the .env file and config.yaml can give a URL, *)
(* but for those in which one source repeats the URL of the one before it.  *)
DistinctSources ==
  {s \in Sources :
     /\ s.env \in Urls => s.dotenv # s.env
     /\ \A u \in Urls : s.yaml = [database |-> [url |-> u]] => u # s.dotenv}

(* The deployment of docker-compose.yml.                                    *)
Compose ==
  {[env |-> postgres, dotenv |-> Absent, yaml |-> [database |-> [url |-> sqlite]]]}
=============================================================================
