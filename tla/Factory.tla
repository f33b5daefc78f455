-------------------------------- MODULE Factory --------------------------------
(***************************************************************************)
(* One factory (simfab.cc): its stocks, its orders and what is on its way  *)
(* to it, for every control type of fabrik_t::build with goods, under the  *)
(* classic orders (just_in_time 1) and the demand buffers (just_in_time    *)
(* 2).  Suppliers, stations and vehicles are the environment: a supplier   *)
(* ships while orders are placed, goods arrive in any portions, may be     *)
(* lost, and a supplier may call back what still waits.                    *)
(* Stocks count units of production; goods are converted with a factor.    *)
(***************************************************************************)
EXTENDS Integers, FiniteSets, FiniteSetsExt, Functions

CONSTANTS
  Descs,         \* the factories in play: just_in_time, number of inputs and outputs, max_transit,
             \* leak (bound: goods lost uncounted), shrinks (it may lose fields)
  Bases,         \* values of prodbase
  Prods,         \* the production of one step
  Scale, Factor, \* Scale units of production are Factor goods (2^18 and get_factor)
  InCapacity, OutCapacity,  \* storage per unit of prodbase, in goods
  ShipmentMax, ShipmentMin, \* SHIPMENT_MAX_SIZE, SHIPMENT_NUM_MIN
  WorkOne, WorkMin,         \* 1 << WORK_BITS, WORK_SCALE_MINIMUM_FRACTION
  FabMaxInput,   \* FAB_MAX_INPUT, in goods
  CounterSize,   \* the counters wrap here (uint8: 256)
  TransitPercent,\* factory_maximum_intransit_percentage
  MaxUnderway,   \* bound: goods on their way, per input
  MaxDebt        \* bound: how far below nothing the demand is when more is sent

ASSUME PositiveAssumption ==
  {Scale, Factor, ShipmentMax, ShipmentMin, WorkOne, CounterSize, InCapacity, OutCapacity, FabMaxInput} \subseteq Nat \ {0}

(* prodbase is at least 1: it starts from the productivity, which the capacities are divided by, *)
(* and finish_rd takes the larger of it and 1                                                    *)
ASSUME FactoryAssumption ==
  /\ Descs \subseteq [jit : {1, 2}, ins : Nat, outs : Nat, maxTransit : Nat, leak : Nat, shrinks : BOOLEAN]
  /\ Bases \subseteq Nat \ {0} /\ IsFiniteSet(Bases)
  /\ Prods \subseteq Nat /\ IsFiniteSet(Prods) /\ Prods # {}
  /\ {WorkMin, TransitPercent, MaxUnderway, MaxDebt} \subseteq Nat

VARIABLES
  desc,              \* the factory this is; never changes
  prodbase,
  input,             \* ware_production_t::menge of the inputs
  output,            \* of the outputs
  demand_buffer,     \* of the inputs (just_in_time 2)
  placing_orders,
  in_transit,        \* statistics[0][FAB_GOODS_TRANSIT] of the inputs
  underway,          \* the goods that really wait or travel for this factory
  inactive_inputs, inactive_outputs, inactive_demands

inactive == <<inactive_inputs, inactive_outputs, inactive_demands>>
vars == <<desc, prodbase, input, output, demand_buffer, placing_orders, in_transit, underway, inactive>>
intake == <<input, demand_buffer, placing_orders, inactive_inputs, inactive_demands>>  \* a sale does not touch these

Inputs == 1..desc.ins
Outputs == 1..desc.outs
Jit2 == desc.jit = 2

(* Conversions: what arrives is rounded up, as is what leaves *)
Units(goods) == (goods * Scale + Factor - 1) \div Factor
Goods(units) == (units * Factor) \div Scale

(* recalc_storage_capacities; with fields it is they that bring the storage, as they bring prodbase *)
InMax(p) == Units(InCapacity * p)
OutMax(p) == Units(OutCapacity * p)
MinShipment(p) ==
  LET size == Goods(OutMax(p))
  IN  Units(IF size >= ShipmentMax * ShipmentMin THEN ShipmentMax
            ELSE IF size > ShipmentMin THEN size \div ShipmentMin ELSE 1)

(* The counters are 8 bits wide; under the classic orders nothing reads them and they stay 0 here *)
Byte(n) == IF Jit2 THEN n % CounterSize ELSE 0
(* rebuild_inactive_cache counts anew *)
EmptyInputs(in) == Cardinality({i \in DOMAIN in : in[i] <= 0})
FullOutputs(out, p) == Cardinality({o \in DOMAIN out : out[o] >= OutMax(p)})
FullDemands(demand, p) == Cardinality({i \in DOMAIN demand : demand[i] >= InMax(p)})

TypeOK ==
  /\ desc \in Descs /\ prodbase \in Bases
  /\ input \in [Inputs -> Int] /\ output \in [Outputs -> Int]
  /\ demand_buffer \in [Inputs -> Int] /\ placing_orders \in [Inputs -> BOOLEAN]
  /\ in_transit \in [Inputs -> Int] /\ underway \in [Inputs -> 0..MaxUnderway]
  /\ {inactive_inputs, inactive_outputs, inactive_demands} \subseteq 0..CounterSize - 1

(* fabrik_t::fabrik_t: a source starts with full stores, everyone else empty and wanting *)
Init ==
  /\ desc \in Descs /\ prodbase \in Bases
  /\ input = [i \in Inputs |-> 0]
  /\ output = [o \in Outputs |-> IF desc.ins > 0 THEN 0 ELSE IF Jit2 THEN OutMax(prodbase) ELSE OutMax(prodbase) - 1]
  /\ demand_buffer = [i \in Inputs |-> IF Jit2 THEN InMax(prodbase) ELSE 0]
  /\ placing_orders = [i \in Inputs |-> FALSE]
  /\ in_transit = [i \in Inputs |-> 0] /\ underway = [i \in Inputs |-> 0]
  /\ inactive_inputs = Byte(desc.ins)
  /\ inactive_outputs = Byte(IF desc.ins = 0 THEN desc.outs ELSE 0)
  /\ inactive_demands = Byte(desc.ins)

(* calculate_work_rate_ramp *)
Ramp(amount, minimum, maximum) ==
  IF minimum >= maximum \/ minimum >= amount THEN WorkOne
  ELSE IF amount < maximum THEN Max({((maximum - amount) * WorkOne) \div (maximum - minimum), WorkMin})
  ELSE 0
OutputRate(o) == Ramp(output[o], MinShipment(prodbase) * 2, OutMax(prodbase))
DemandRate(i) == Ramp(demand_buffer[i], InMax(prodbase) \div 2, InMax(prodbase))
Scaled(prod, work) == (prod * work + WorkOne - 1) \div WorkOne

(* scale_output_production *)
Prorated(o, prod) ==
  IF output[o] >= OutMax(prodbase) THEN 0
  ELSE IF output[o] >= 2 * MinShipment(prodbase) THEN (prod * (OutMax(prodbase) - output[o])) \div OutMax(prodbase)
  ELSE prod

(* What a control type makes of one step: the stocks after it, what the orders should  *)
(* replace, and how many inputs and outputs it registers as inactive                   *)
Made(in, out, want, ins, outs) == [input |-> in, output |-> out, want |-> want, ins |-> ins, outs |-> outs]
Nothing(want) == Made(input, output, want, 0, 0)

ProdClassic(prod) ==
  Made(input, [o \in Outputs |-> output[o] + Prorated(o, prod)], 0, 0, 0)

FactClassic(prod) ==
  LET least == Min(Range(input))
      used == [o \in Outputs |-> Min({Prorated(o, prod), least})]
      consumed == Max({0} \cup Range(used))
  IN  Made([i \in Inputs |-> IF input[i] > consumed + 1 THEN input[i] - consumed ELSE 0],
           [o \in Outputs |-> output[o] + Max({used[o], 0})], 0, 0, 0)

ConsClassic(prod) ==
  Made([i \in Inputs |-> IF input[i] > prod + 1 THEN input[i] - prod ELSE 0], output, 0, 0, 0)

Room(o) == OutMax(prodbase) - output[o]
Active == {o \in Outputs : Room(o) > 0}

(* Mutant of ProdMany: fills stores beyond their limit *)
ProdManyOver(prod) ==
  IF inactive_outputs = desc.outs THEN Nothing(0)
  ELSE Made(input, [o \in Outputs |-> output[o] + IF o \in Active THEN Scaled(prod, OutputRate(o)) ELSE 0], 0, 0, 0)

ProdMany(prod) ==
  IF inactive_outputs = desc.outs THEN Nothing(0)
  ELSE Made(input,
            [o \in Outputs |-> output[o] + IF o \in Active THEN Min({Scaled(prod, OutputRate(o)), Room(o)}) ELSE 0],
            0, 0, 0)

(* The outputs share the least input; what one takes the next ones lack *)
FactMany(prod) ==
  LET limit == Min({DemandRate(i) : i \in Inputs})
      desired == [o \in Outputs |->
                    IF o \in Active THEN Min({Scaled(prod, Min({OutputRate(o), limit})), Room(o)}) ELSE 0]
      want == SumFunction(desired) \div desc.outs
      supply == Min(Range(input)) * desc.outs
      made == [o \in Outputs |->
                 Min({desired[o], Max({0, supply - SumFunctionOnSet(desired, {p \in Active : p < o})})})]
      consumed == SumFunction(made) \div desc.outs
  IN  IF inactive_outputs = desc.outs THEN Nothing(0)
      ELSE IF inactive_inputs > 0 THEN Nothing(want)
      ELSE Made([i \in Inputs |-> Max({input[i] - consumed, 0})],
                [o \in Outputs |-> output[o] + made[o]],
                want,
                Cardinality({i \in Inputs : input[i] <= consumed}),
                Cardinality({o \in Active : made[o] = Room(o)}))

ConsMany(prod) ==
  LET used == [i \in Inputs |-> IF input[i] > 0 THEN Min({input[i], Scaled(prod, DemandRate(i))}) ELSE 0]
  IN  IF inactive_inputs = desc.ins THEN Nothing(prod)
      ELSE Made([i \in Inputs |-> input[i] - used[i]], output, prod,
                Cardinality({i \in Inputs : input[i] > 0 /\ used[i] = input[i]}), 0)

(* control_type *)
Control(prod) ==
  IF desc.ins = 0 THEN IF Jit2 THEN ProdMany(prod) ELSE ProdClassic(prod)
  ELSE IF desc.outs = 0 THEN IF Jit2 THEN ConsMany(prod) ELSE ConsClassic(prod)
  ELSE IF Jit2 THEN FactMany(prod) ELSE FactClassic(prod)

(* The ordering logic: who makes goods orders all inputs in step, who only uses them each for itself *)
Ordered(want) ==
  [i \in Inputs |->
     demand_buffer[i] +
       IF ~Jit2 \/ want = 0 THEN 0
       ELSE IF desc.outs > 0 THEN IF inactive_demands > 0 THEN 0 ELSE want
       ELSE IF inactive_demands = desc.ins \/ demand_buffer[i] >= InMax(prodbase) THEN 0
       ELSE Max({Scaled(want, DemandRate(i)), 1})]
NewlyFull(demand) ==
  Cardinality({i \in Inputs : demand_buffer[i] < InMax(prodbase) /\ demand[i] >= InMax(prodbase)})

(* The shipments of one period, verteile_waren: each at most min_shipment, 0 where no   *)
(* consumer, station or route takes it, or the stock is too small                       *)
Shipments(out) ==
  {s \in [Outputs -> 0..Goods(MinShipment(prodbase))] :
     \A o \in Outputs : s[o] > 0 => out[o] >= MinShipment(prodbase)}
Reactivated(out, s) == Cardinality({o \in Outputs : out[o] = OutMax(prodbase) /\ Units(s[o]) > 0})

Orders(in, demand) ==
  [i \in Inputs |->
     IF Jit2 THEN demand[i] > 0
     ELSE /\ in[i] < InMax(prodbase)
          /\ desc.maxTransit = 0 \/ in_transit[i] < desc.maxTransit]

(* fabrik_t::step within a period *)
Step(prod) ==
  \E made \in {Control(prod)} : \E demand \in {Ordered(made.want)} :
      /\ input' = made.input /\ output' = made.output /\ demand_buffer' = demand
      /\ inactive_inputs' = Byte(inactive_inputs + made.ins)
      /\ inactive_outputs' = Byte(inactive_outputs + made.outs)
      /\ inactive_demands' = Byte(inactive_demands + NewlyFull(demand))
      /\ UNCHANGED <<desc, prodbase, placing_orders, in_transit, underway>>

(* fabrik_t::step that ends a period: it also distributes and orders *)
StepPeriod(prod) ==
  \E made \in {Control(prod)} : \E demand \in {Ordered(made.want)} :
      \E s \in Shipments(made.output) :
        /\ input' = made.input
        /\ output' = [o \in Outputs |-> made.output[o] - Units(s[o])]
        /\ demand_buffer' = demand
        /\ placing_orders' = Orders(made.input, demand)
        /\ inactive_inputs' = Byte(inactive_inputs + made.ins)
        /\ inactive_outputs' = Byte(inactive_outputs + made.outs - Reactivated(made.output, s))
        /\ inactive_demands' = Byte(inactive_demands + NewlyFull(demand))
        /\ UNCHANGED <<desc, prodbase, in_transit, underway>>

(* The changes of a demand buffer that arrivals, suppliers and call-backs make *)
Demand(i, d) == [demand_buffer EXCEPT ![i] = d]
Crossed(i, d) ==  \* what this adds to inactive_demands
  IF demand_buffer[i] >= InMax(prodbase) /\ d < InMax(prodbase) THEN -1
  ELSE IF demand_buffer[i] < InMax(prodbase) /\ d >= InMax(prodbase) THEN 1 ELSE 0

(* Mutant of Ship: what is sent leaves the demand, but a full demand is not made active *)
ShipUncounted(i) ==
  /\ placing_orders[i] /\ demand_buffer[i] >= -MaxDebt
  /\ \E n \in 1..ShipmentMax :
       /\ underway[i] + n <= MaxUnderway
       /\ underway' = [underway EXCEPT ![i] = @ + n]
       /\ in_transit' = [in_transit EXCEPT ![i] = @ + n]
       /\ demand_buffer' = Demand(i, IF Jit2 THEN demand_buffer[i] - Units(n) ELSE demand_buffer[i])
  /\ UNCHANGED <<desc, prodbase, input, output, placing_orders, inactive>>

(* fabrik_t::apply_transit: a supplier has sent goods *)
Ship(i) ==
  /\ placing_orders[i] /\ demand_buffer[i] >= -MaxDebt
  /\ \E n \in 1..ShipmentMax :
       LET d == IF Jit2 THEN demand_buffer[i] - Units(n) ELSE demand_buffer[i]
       IN  /\ underway[i] + n <= MaxUnderway
           /\ underway' = [underway EXCEPT ![i] = @ + n]
           /\ in_transit' = [in_transit EXCEPT ![i] = @ + n]
           /\ demand_buffer' = Demand(i, d)
           /\ inactive_demands' = Byte(inactive_demands + Crossed(i, d))
  /\ UNCHANGED <<desc, prodbase, input, output, placing_orders, inactive_inputs, inactive_outputs>>

(* fabrik_t::liefere_an: what a full store cannot take is discarded, under just_in_time 2 at the price of demand *)
Arrive(i) ==
  \E n \in 1..underway[i] :
    LET stock == input[i] + Units(n)
        most == IF Jit2 THEN InMax(prodbase) ELSE Units(FabMaxInput)
        d == IF Jit2 THEN demand_buffer[i] - Max({stock - most, 0}) ELSE demand_buffer[i]
    IN  /\ underway' = [underway EXCEPT ![i] = @ - n]
        /\ in_transit' = [in_transit EXCEPT ![i] = @ - n]
        /\ input' = [input EXCEPT ![i] = IF Jit2 THEN Min({stock, most}) ELSE IF stock >= most THEN most - 1 ELSE stock]
        /\ demand_buffer' = Demand(i, d)
        /\ inactive_inputs' = Byte(inactive_inputs - IF input[i] <= 0 THEN 1 ELSE 0)
        /\ inactive_demands' = Byte(inactive_demands + Crossed(i, d))
        /\ UNCHANGED <<desc, prodbase, output, placing_orders, inactive_outputs>>

(* Mutant of Recall: the refund does not look whether the demand is full again *)
RecallUncounted(i) ==
  \E n \in 1..underway[i] :
    /\ underway' = [underway EXCEPT ![i] = @ - n]
    /\ in_transit' = [in_transit EXCEPT ![i] = @ - n]
    /\ demand_buffer' = Demand(i, IF Jit2 THEN demand_buffer[i] + Units(n) ELSE demand_buffer[i])
    /\ UNCHANGED <<desc, prodbase, input, output, placing_orders, inactive>>

(* verteile_waren of a supplier: it calls waiting goods back (recall_ware) and refunds the demand *)
Recall(i) ==
  \E n \in 1..underway[i] :
    LET d == IF Jit2 THEN demand_buffer[i] + Units(n) ELSE demand_buffer[i]
    IN  /\ underway' = [underway EXCEPT ![i] = @ - n]
        /\ in_transit' = [in_transit EXCEPT ![i] = @ - n]
        /\ demand_buffer' = Demand(i, d)
        /\ inactive_demands' = Byte(inactive_demands + Crossed(i, d))
        /\ UNCHANGED <<desc, prodbase, input, output, placing_orders, inactive_inputs, inactive_outputs>>

(* Goods without a route are dropped: with update_transit (vehicles, stations that close),  *)
(* or without (haltestelle_t::fetch_goods, liefere_an)                               *)
Lose(i) ==
  \E n \in 1..underway[i], counted \in BOOLEAN :
    /\ counted \/ in_transit[i] - underway[i] + n <= desc.leak
    /\ underway' = [underway EXCEPT ![i] = @ - n]
    /\ in_transit' = [in_transit EXCEPT ![i] = IF counted THEN @ - n ELSE @]
    /\ UNCHANGED <<desc, prodbase, input, output, demand_buffer, placing_orders, inactive>>

(* set_base_production: the stores change with it, the stocks do not *)
SetBaseProduction(p) ==
  /\ p # prodbase /\ (p > prodbase \/ desc.shrinks)
  /\ prodbase' = p
  /\ inactive_inputs' = Byte(EmptyInputs(input))
  /\ inactive_outputs' = Byte(FullOutputs(output, p))
  /\ inactive_demands' = Byte(FullDemands(demand_buffer, p))
  /\ UNCHANGED <<desc, input, output, demand_buffer, placing_orders, in_transit, underway>>

(* Saving and loading: rdwr counts the transit anew, finish_rd the rest.  Suppliers that    *)
(* are loaded after this factory have not raised max_transit yet when it places its orders  *)
Load ==
  LET in == IF Jit2 THEN [i \in Inputs |-> Min({input[i], InMax(prodbase)})] ELSE input
      out == IF Jit2 THEN [o \in Outputs |-> Min({output[o], OutMax(prodbase)})] ELSE output
      slack == (InMax(prodbase) * TransitPercent) \div 100
      sane(d) == IF TransitPercent = 0 THEN d
                 ELSE IF d < -slack THEN -slack ELSE IF d > InMax(prodbase) + slack THEN InMax(prodbase) ELSE d
      demand == IF Jit2 THEN [i \in Inputs |-> sane(demand_buffer[i])] ELSE demand_buffer
  IN  /\ input' = in /\ output' = out /\ demand_buffer' = demand
      /\ in_transit' = underway
      /\ placing_orders' \in
           IF Jit2 THEN {[i \in Inputs |-> demand_buffer[i] > 0]}
           ELSE {orders \in [Inputs -> BOOLEAN] :
                   \A i \in Inputs : orders[i] => input[i] < InMax(prodbase) /\ underway[i] < desc.maxTransit}
      /\ inactive_inputs' = Byte(EmptyInputs(in))
      /\ inactive_outputs' = Byte(FullOutputs(out, prodbase))
      /\ inactive_demands' = Byte(FullDemands(demand, prodbase))
      /\ UNCHANGED <<desc, prodbase, underway>>

Next ==
  \/ \E prod \in Prods : Step(prod) \/ StepPeriod(prod)
  \/ \E i \in Inputs : Ship(i) \/ Arrive(i) \/ Recall(i) \/ Lose(i)
  \/ \E p \in Bases : SetBaseProduction(p)
  \/ Load

(* The clock runs, suppliers deliver what is ordered, and transport does not always fail.  *)
(* Nothing makes customers take goods: a period may ship nothing.  So a period counts by   *)
(* what it does whatever it ships; under WF_vars, a factory whose periods change nothing   *)
(* without a sale would have to sell.                                                      *)
Fairness ==
  /\ WF_intake(\E prod \in Prods : StepPeriod(prod))
  /\ \A i \in 1..Max({d.ins : d \in Descs}) : SF_vars(i \in Inputs /\ Ship(i)) /\ SF_vars(i \in Inputs /\ Arrive(i))

Spec == Init /\ [][Next]_vars
FairSpec == Spec /\ Fairness

-----------------------------------------------------------------------------
(* The inactive caches are what rebuild_inactive_cache would count: a factory under    *)
(* just_in_time 2 that uses goods (for others or for itself) neither stops with goods  *)
(* to use nor works without.  One that only makes goods is left out: ProdMany reads    *)
(* inactive_outputs too, but does not count an output that it fills (NotStopped)       *)
CachesHold ==
  Jit2 /\ desc.ins > 0 =>
    /\ inactive_inputs = EmptyInputs(input)
    /\ inactive_outputs = FullOutputs(output, prodbase)
    /\ inactive_demands = FullDemands(demand_buffer, prodbase)

(* A factory that can store more of what it makes is not kept from making it by the cache, *)
(* which a factory that only makes goods violates (FactoryStuck.cfg)                       *)
NotStopped ==
  Jit2 /\ inactive_outputs = desc.outs => \A o \in Outputs : output[o] >= OutMax(prodbase)

(* Stocks stay within the stores whatever is shipped, delivered and made: nothing is sent *)
(* that is not there, and "in JIT2 it is illegal to exceed input storage limit"           *)
StocksInBounds ==
  LET p == IF desc.shrinks THEN Max(Bases) ELSE prodbase
  IN  /\ \A i \in Inputs : 0 <= input[i] /\ input[i] <= IF Jit2 THEN InMax(p) ELSE Units(FabMaxInput)
      /\ \A o \in Outputs : 0 <= output[o] /\ output[o] <= IF Jit2 THEN OutMax(p) ELSE OutMax(p) + Max(Prods)

(* One of the goods fills its store: less and less is made, and under the demand buffers *)
(* no more is ordered than is used                                                       *)
Unsold == Jit2 /\ \E o \in Outputs : output[o] >= OutMax(prodbase)

(* A factory whose suppliers ship what it orders gets goods again and again, even if      *)
(* some of what was sent is lost and nobody takes what it makes, unless it orders by      *)
(* demand and one of its stores stays full: what is lost is ordered again out of what     *)
(* is made, and the counters never stop the orders (fabrik_t::step, apply_transit)        *)
GetsSupplied == \A i \in 1..Max({d.ins : d \in Descs}) : []<>(i \in Inputs => input[i] > 0) \/ <>[]Unsold
=============================================================================
