------------------------------ MODULE MCScreen -------------------------------
(* Instance for TLC of what a config writes, what is shown of it and what the  *)
(* pointer finds there: each behaviour is of one of these machines, which      *)
(* share no state; the rest keep their initial state.                          *)
EXTENDS Alias, AliasWatch, Panels, Pointer, Layout, Items, LuaModules, LuaApi, LuaHost

\* Lengths to measure with: less than nothing, nothing, and some.
MCLengths == {-2, 0, 2}

VARIABLE part  \* the machine this behaviour is of

screenVars == <<part, aliasVars, watchVars, panelsVars, pointerVars, sheet, layoutVars, itemsVars,
                modulesVars, apiVars, luaHostVars>>

\* What the machine that runs leaves alone: all the others.
OfAlias == /\ part = "alias"
           /\ UNCHANGED <<part, watchVars, panelsVars, pointerVars, sheet,
                         layoutVars, itemsVars, modulesVars, apiVars, luaHostVars>>
OfWatch == /\ part = "watch"
           /\ UNCHANGED <<part, aliasVars, panelsVars, pointerVars, sheet,
                         layoutVars, itemsVars, modulesVars, apiVars, luaHostVars>>
OfPanels == /\ part = "panels"
            /\ UNCHANGED <<part, aliasVars, watchVars, pointerVars, sheet,
                          layoutVars, itemsVars, modulesVars, apiVars, luaHostVars>>
OfPointer == /\ part = "pointer"
             /\ UNCHANGED <<part, aliasVars, watchVars, panelsVars, sheet,
                           layoutVars, itemsVars, modulesVars, apiVars, luaHostVars>>
OfGeometry == /\ part = "geometry"
              /\ UNCHANGED <<part, aliasVars, watchVars, panelsVars, pointerVars,
                            layoutVars, itemsVars, modulesVars, apiVars, luaHostVars>>
OfLayout == /\ part = "layout"
            /\ UNCHANGED <<part, aliasVars, watchVars, panelsVars, pointerVars,
                          sheet, itemsVars, modulesVars, apiVars, luaHostVars>>
OfItems == /\ part = "items"
           /\ UNCHANGED <<part, aliasVars, watchVars, panelsVars, pointerVars,
                         sheet, layoutVars, modulesVars, apiVars, luaHostVars>>
OfModules == /\ part = "modules"
             /\ UNCHANGED <<part, aliasVars, watchVars, panelsVars, pointerVars,
                           sheet, layoutVars, itemsVars, apiVars, luaHostVars>>
OfApi == /\ part = "api"
         /\ UNCHANGED <<part, aliasVars, watchVars, panelsVars, pointerVars,
                       sheet, layoutVars, itemsVars, modulesVars, luaHostVars>>
OfLuaHost == /\ part = "luahost"
             /\ UNCHANGED <<part, aliasVars, watchVars, panelsVars, pointerVars,
                           sheet, layoutVars, itemsVars, modulesVars, apiVars>>

Bare == [w \in Windows |-> Nothing]
Alike == [a \in AliasItems |-> CHOOSE s \in Specs : TRUE]

ScreenInit ==
  /\ part \in {"alias", "watch", "panels", "pointer", "geometry", "layout", "items",
               "modules", "api", "luahost"}
  /\ AliasInit /\ AliasWatchInit /\ PanelsInit /\ PointerInit /\ GeometryInit /\ LayoutInit /\ ItemsInit
  /\ ModulesInit /\ ApiInit /\ LuaHostInit
  /\ part # "alias" => bar = Bare /\ names = Alike /\ granted
  /\ part # "panels" =>
       /\ attached = Screens /\ spotOf = [i \in PanelItems |-> Min(Spots)]
       /\ onlyOn = [i \in PanelItems |-> 0]
  /\ part # "layout" => ~hanging.drawing
  /\ part # "luahost" => transport = "direct"
  /\ part # "items" => item = <<>> /\ nextOrder = 0

ScreenNext ==
  \/ OfAlias /\ AliasNext
  \/ OfWatch /\ AliasWatchNext
  \/ OfPanels /\ PanelsNext
  \/ OfPointer /\ PointerNext
  \/ OfGeometry /\ GeometryNext
  \/ OfLayout /\ LayoutNext
  \/ OfItems /\ ItemsNext
  \/ OfModules /\ ModulesNext
  \/ OfApi /\ ApiNext
  \/ OfLuaHost /\ LuaHostNext

\* Of the machines, the fairness their own modules state.
ScreenFairness == WF_aliasVars(part = "alias" /\ Work)

ScreenSpec == ScreenInit /\ [][ScreenNext]_screenVars /\ ScreenFairness

\* Every variable of these machines keeps to its type.
ScreenTypeOK ==
  /\ AliasTypeOK /\ AliasWatchTypeOK
  /\ part = "panels" => PanelsTypeOK
  /\ part = "pointer" => PointerTypeOK
  /\ part = "layout" => LayoutTypeOK
  /\ part = "items" => ItemsTypeOK
  /\ part = "modules" => ModulesTypeOK
  /\ part = "luahost" => LuaHostTypeOK

\* Aliases are not polled: once nothing changes any more, nothing runs any
\* more, whether or not an alias was ever found (alias.rs, `Captures::rescan`).
AliasesRest == <>[](part = "alias" => Idle)
==============================================================================
