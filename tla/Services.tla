------------------------------- MODULE Services -------------------------------
(***************************************************************************)
(* SystemInit of main.cpp: the configuration is read, then the MySQL and   *)
(* the Redis manager are started with it.  The managers share nothing but  *)
(* the configuration, which no longer changes, so a behaviour follows the  *)
(* threads of one of them.                                                 *)
(***************************************************************************)
EXTENDS Configer, RedisService, SqlService

CONSTANTS
  Followed  \* bound: for which file the threads of which manager are followed

VARIABLES
  side      \* "main" while SystemInit runs, then the manager that is followed

svVars == <<cfgVars, rVars, sVars, side>>

Init == ConfigInit /\ RedisInit /\ SqlInit /\ side = "main"

ReadConfig == side = "main" /\ ConfigNext /\ UNCHANGED <<rVars, sVars, side>>

(* The rest of SystemInit: CSqlServiceMgr::OnInit, CRedisServiceMgr::OnInit. *)
SystemInit ==
  LET redis == {z \in CfgZones : RedisComplete(z)}
  IN  /\ side = "main" /\ cfgState = "true"
      /\ \/ side' = "sql" /\ SqlOnInit(MysqlZones, redis) /\ UNCHANGED rVars
         \/ side' = "redis" /\ RedisOnInit(redis) /\ UNCHANGED sVars
      /\ <<file, side'>> \in Followed
      /\ UNCHANGED cfgVars

RunRedis == side = "redis" /\ RedisNext /\ UNCHANGED <<cfgVars, sVars, side>>

RunSql == side = "sql" /\ SqlNext /\ UNCHANGED <<cfgVars, rVars, side>>

Next == ReadConfig \/ SystemInit \/ RunRedis \/ RunSql

Spec == Init /\ [][Next]_svVars /\ RedisFairness /\ SqlFairness
=============================================================================
